---- MODULE Spec2Model ----
(***************************************************************************)
(* Collatz "falling digits" rain: the Collatz step, the column allocator,  *)
(* one digit stream and the tick loop of the spawning variants             *)
(* (collatz.py top-cull, collatz7.py bottom-cull, collatz5.py whole-stack).*)
(*                                                                         *)
(* Units.  Times are milliseconds (pygame.time.get_ticks, clock.tick).     *)
(* Row coordinates (head_row, row_accum) are Python floats; the model      *)
(* keeps them exactly as integers counted in 1/1000 row (RowScale), so     *)
(* delta_rows = rows_per_sec * dt_ms.                                      *)
(***************************************************************************)
EXTENDS Integers, Sequences, FiniteSets, TLC

VARIABLES
    step_n,        \* argument handed to collatz_step
    step_out,      \* results of the last application, per textual form
    alloc,         \* ColumnAllocator object: cols_fit, cooldown_ms, last_used
    now_ms,        \* pygame.time.get_ticks()
    pick_pre,      \* last_used before the last pick (history)
    pick_avoid,    \* avoid argument of the last pick (history)
    pick_ret,      \* column returned by the last pick (history)
    variant,       \* which program is running: "collatz", "collatz5", "collatz7"
    args,          \* parsed command line (argparse namespace)
    stream,        \* the single stream of the stream-level specification
    dt_hist,       \* dt of every update applied to it so far (history)
    spc,           \* its position in the loop body: "update" | "check"
    child_value,   \* value of the child it asked for (None before)
    streams,       \* self.streams
    target,        \* self.min_concurrent / self.target_active
    pc,            \* position in run()
    snapshot,      \* list(self.streams): indexes of the streams being iterated
    it,            \* position of the for loop in the iterated list
    dt,            \* dt of the current tick, in ms
    running,       \* the while flag of run()
    deficit,       \* remaining iterations of _top_up_density's for loop
    upd_log,       \* indexes updated in this tick, in order (history)
    chk_log,       \* indexes checked for spawning in this tick (history)
    spawn_log,     \* <<parent index, child index>> of this tick's spawns (history)
    removed,       \* streams dropped by this tick's filter (history)
    n_after_cull,  \* len(self.streams) right after the filter (history)
    drawn,         \* streams handed to draw() in the last draw phase (history)
    log,           \* the lines printed to stdout so far, in order
    gen,           \* a collatz_generator object and what it has yielded so far
    seq,           \* the frame of a call collatz_sequence(n) of new.py
    proc,          \* a process running main(): command line, position, outcome
    seed,          \* a call of the random seeding function and what it drew
    bright,        \* calls of draw()'s brightness function (history)
    matrix         \* a MatrixColumn driven by main()'s loop, under collatz2.py and colltaz1.py

vars == <<step_n, step_out, alloc, now_ms, pick_pre, pick_avoid, pick_ret,
          variant, args, stream, dt_hist, spc, child_value,
          streams, target, pc, snapshot, it, dt, running, deficit,
          upd_log, chk_log, spawn_log, removed, n_after_cull, drawn, log,
          gen, seq, proc, seed, bright, matrix>>

stepVars   == <<step_n, step_out>>
allocVars  == <<alloc, now_ms, pick_pre, pick_avoid, pick_ret>>
cfgVars    == <<variant, args>>
streamVars == <<stream, dt_hist, spc, child_value>>
rainVars   == <<streams, target, pc, snapshot, it, dt, running, deficit,
                upd_log, chk_log, spawn_log, removed, n_after_cull, drawn,
                log>>
scriptVars == <<gen, seq, proc, seed, bright, matrix>>

\* Python's None, in the places that otherwise hold an integer
None == -999

Max(a, b) == IF a >= b THEN a ELSE b
Min(a, b) == IF a <= b THEN a ELSE b

(***************************************************************************)
(* Bounds of the model.                                                    *)
(***************************************************************************)
\* collatz_step is applied to every n in 1..MaxN
MaxN == 120
\* the allocator is built with cols_fit arguments 0..MaxCols
MaxCols == 3
\* the allocator's clock runs to MaxClock half seconds
MaxClock == 4
\* the single stream is updated until MaxStreamSeconds seconds have elapsed
MaxStreamSeconds == 6
\* run() ticks until MaxSeconds seconds have elapsed
MaxSeconds == 3
\* collatz_generator is created with every start in 1..MaxGenStart
MaxGenStart == 12
\* next() is called on a generator until it has yielded MaxYields terms
MaxYields == 14
\* width of the random restart value (128 bits in the source)
RandBits == 2
\* collatz_sequence is called with every n in 1..MaxSeqStart
MaxSeqStart == 30
\* the number of loop iterations within which every sampled call returns
IterationCap == 178
\* the main loop of a started process is followed for MaxTicks iterations
MaxTicks == 3

(***************************************************************************)
(* Sequencer                                                               *)
(***************************************************************************)
\* mutant: odd branch computes 3n - 1
collatz_step_minus(n) == IF n % 2 = 0 THEN n \div 2 ELSE 3 * n - 1

\* collatz.py (also collatz2/5/7, colltaz1): n // 2 if n % 2 == 0 else 3 * n + 1
collatz_step(n) == IF n % 2 = 0 THEN n \div 2 ELSE 3 * n + 1

\* collatz3.py (also ex.py, updated.py): the if/else form
collatz3_collatz_step(n) ==
    IF n % 2 = 0
      THEN n \div 2
      ELSE 3 * n + 1

(***************************************************************************)
(* ColumnAllocator                                                         *)
(***************************************************************************)
NeverUsed == -10000000

\* ColumnAllocator.__init__
ColumnAllocator(cols_fit, cooldown_ms) ==
    [cols_fit    |-> Max(1, cols_fit),
     cooldown_ms |-> Max(0, cooldown_ms),
     last_used   |-> [c \in 0 .. (Max(1, cols_fit) - 1) |-> NeverUsed]]

\* mutant: the cooldown test is dropped from the for loop
choices_no_cooldown(a, now, avoid) ==
    {c \in 0 .. (a.cols_fit - 1) : ~(avoid # None /\ c = avoid)}

\* pick: the list `choices` built by the for loop
choices(a, now, avoid) ==
    {c \in 0 .. (a.cols_fit - 1) :
        /\ ~(avoid # None /\ c = avoid)
        /\ now - a.last_used[c] >= a.cooldown_ms}

\* mutant: the fallback keeps the last maximal element instead of the first
lru_last_max(a, now) ==
    CHOOSE c \in 0 .. (a.cols_fit - 1) :
        /\ \A d \in 0 .. (a.cols_fit - 1) :
              now - a.last_used[d] <= now - a.last_used[c]
        /\ \A d \in (c + 1) .. (a.cols_fit - 1) :
              now - a.last_used[d] < now - a.last_used[c]

\* mutant: the fallback scans one column too many
lru_off_by_one(a, now) == a.cols_fit

\* pick: max(range(cols_fit), key=lambda c: now_ms - last_used[c]);
\* Python's max returns the first maximal element
lru(a, now) ==
    CHOOSE c \in 0 .. (a.cols_fit - 1) :
        /\ \A d \in 0 .. (a.cols_fit - 1) :
              now - a.last_used[d] <= now - a.last_used[c]
        /\ \A d \in 0 .. (c - 1) :
              now - a.last_used[d] < now - a.last_used[c]

\* mutant: without the fallback, a saturated allocator has nothing to return
pick_cols_no_fallback(a, now, avoid) == choices(a, now, avoid)

\* pick: the columns the call can return (random.choice, or the fallback)
pick_cols(a, now, avoid) ==
    IF choices(a, now, avoid) # {}
      THEN choices(a, now, avoid)
      ELSE {lru(a, now)}

\* mutant: every column is stamped, not only the returned one
pick_mark_all(a, now, col) ==
    [a EXCEPT !.last_used = [c \in 0 .. (a.cols_fit - 1) |-> now]]

\* pick: self.last_used[col] = now_ms
pick_mark(a, now, col) == [a EXCEPT !.last_used[col] = now]

(***************************************************************************)
(* Streams.  A stream is a record of the object's attributes.  char_buffer *)
(* is a sequence whose first element is Python's index 0 (the head).       *)
(***************************************************************************)
RowScale == 1000

DigitChars == <<"0", "1", "2", "3", "4", "5", "6", "7", "8", "9">>

\* str(value) for value >= 0, as the list of its characters
RECURSIVE str(_)
str(n) ==
    IF n < 10
      THEN <<DigitChars[n + 1]>>
      ELSE str(n \div 10) \o <<DigitChars[(n % 10) + 1]>>

\* int(x) of the float num/den: truncation toward zero
int(num, den) ==
    IF num >= 0 THEN num \div den ELSE -((-num) \div den)

\* int(self.head_row * self.row_px)
head_y_px(s) == int(s.head_row * s.row_px, RowScale)

\* collatz.py ThreadStream.__init__
ThreadStream(value, column, cols_fit, row_px, screen_h, rows_per_sec, digit_gap_rows, trigger_emits) ==
    [value                 |-> value,
     digits                |-> str(value),
     column                |-> Max(0, Min(column, cols_fit - 1)),
     row_px                |-> row_px,
     screen_h              |-> screen_h,
     rows_per_sec          |-> rows_per_sec,
     digit_gap_rows        |-> Max(0, digit_gap_rows),
     trigger_emits         |-> Max(1, trigger_emits),
     head_row              |-> 0,
     row_accum             |-> RowScale,
     rows_until_next_digit |-> 0,
     emit_index            |-> 0,
     emitted_total         |-> 0,
     done_emitting         |-> FALSE,
     spawned_next          |-> FALSE,
     char_buffer           |-> <<>>]

\* collatz7.py / collatz5.py VerticalNumberStream.__init__
VerticalNumberStream(value, column, cols_fit, row_px, screen_h, rows_per_sec, digit_gap_rows) ==
    [value                 |-> value,
     digits                |-> str(value),
     column                |-> Max(0, Min(column, cols_fit - 1)),
     row_px                |-> row_px,
     screen_h              |-> screen_h,
     rows_per_sec          |-> rows_per_sec,
     digit_gap_rows        |-> Max(0, digit_gap_rows),
     head_row              |-> -2 * RowScale,
     row_accum             |-> 0,
     rows_until_next_digit |-> 0,
     emit_index            |-> 0,
     done_emitting         |-> FALSE,
     spawned_next          |-> FALSE,
     char_buffer           |-> <<>>]

\* update: head_row += delta_rows; row_accum += delta_rows
advance(s, dt_ms) ==
    [s EXCEPT !.head_row  = @ + s.rows_per_sec * dt_ms,
              !.row_accum = @ + s.rows_per_sec * dt_ms]

\* mutant: the new digit is appended at the tail instead of inserted at the head
emit_row_append(s) ==
    LET t == [s EXCEPT !.row_accum = @ - RowScale] IN
    IF t.rows_until_next_digit <= 0
      THEN IF t.emit_index < Len(t.digits)
             THEN [t EXCEPT
                     !.char_buffer = @ \o <<t.digits[t.emit_index + 1]>>,
                     !.emit_index = @ + 1,
                     !.emitted_total = @ + 1,
                     !.rows_until_next_digit = 1 + t.digit_gap_rows]
             ELSE [t EXCEPT !.done_emitting = TRUE]
      ELSE [t EXCEPT !.rows_until_next_digit = @ - 1]

\* ThreadStream.update: one iteration of the emission while loop
emit_row(s) ==
    LET t == [s EXCEPT !.row_accum = @ - RowScale] IN
    IF t.rows_until_next_digit <= 0
      THEN IF t.emit_index < Len(t.digits)
             THEN [t EXCEPT
                     !.char_buffer = <<t.digits[t.emit_index + 1]>> \o @,
                     !.emit_index = @ + 1,
                     !.emitted_total = @ + 1,
                     !.rows_until_next_digit = 1 + t.digit_gap_rows]
             ELSE [t EXCEPT !.done_emitting = TRUE]
      ELSE [t EXCEPT !.rows_until_next_digit = @ - 1]

\* ThreadStream.update: while self.row_accum >= 1.0 and not self.done_emitting
RECURSIVE emit_rows(_)
emit_rows(s) ==
    IF s.row_accum >= RowScale /\ ~s.done_emitting
      THEN emit_rows(emit_row(s))
      ELSE s

\* VerticalNumberStream.update: one iteration of the emission while loop
v_emit_row(s) ==
    LET t == [s EXCEPT !.row_accum = @ - RowScale] IN
    IF t.rows_until_next_digit <= 0
      THEN IF t.emit_index < Len(t.digits)
             THEN [t EXCEPT
                     !.char_buffer = <<t.digits[t.emit_index + 1]>> \o @,
                     !.emit_index = @ + 1,
                     !.rows_until_next_digit = 1 + t.digit_gap_rows]
             ELSE [t EXCEPT !.done_emitting = TRUE]
      ELSE [t EXCEPT !.rows_until_next_digit = @ - 1]

\* VerticalNumberStream.update: the emission while loop
RECURSIVE v_emit_rows(_)
v_emit_rows(s) ==
    IF s.row_accum >= RowScale /\ ~s.done_emitting
      THEN v_emit_rows(v_emit_row(s))
      ELSE s

\* tail_y_px = int(head_row * row_px) - tail_idx * row_px, tail_idx = len - 1
tail_y_px(s) == head_y_px(s) - (Len(s.char_buffer) - 1) * s.row_px

\* mutant: the cull takes the head of the buffer, char_buffer.pop(0)
pop_head(s) == [s EXCEPT !.char_buffer = Tail(@)]

\* char_buffer.pop()
pop(s) == [s EXCEPT !.char_buffer = SubSeq(@, 1, Len(@) - 1)]

\* ThreadStream.update: top culling, while self.char_buffer
RECURSIVE top_cull(_)
top_cull(s) ==
    IF s.char_buffer # <<>> /\ tail_y_px(s) < -s.row_px
      THEN top_cull(pop(s))
      ELSE s

\* collatz7.py VerticalNumberStream.update: per-digit bottom culling (one if)
bottom_cull(s) ==
    IF s.char_buffer # <<>> /\ tail_y_px(s) >= s.screen_h - 1
      THEN pop(s)
      ELSE s

\* collatz.py ThreadStream.update
update(s, dt_ms) == top_cull(emit_rows(advance(s, dt_ms)))

\* collatz7.py VerticalNumberStream.update
c7_update(s, dt_ms) == bottom_cull(v_emit_rows(advance(s, dt_ms)))

\* collatz5.py VerticalNumberStream.update (no culling)
c5_update(s, dt_ms) == v_emit_rows(advance(s, dt_ms))

\* mutant: the request is not latched by spawned_next
wants_next_spawn_unlatched(s) == s.emitted_total >= s.trigger_emits

\* collatz.py ThreadStream.wants_next_spawn
wants_next_spawn(s) ==
    (~s.spawned_next) /\ (s.emitted_total >= s.trigger_emits)

\* mutant: the parent is not marked
mark_spawned_forgotten(s) == s

\* collatz.py ThreadStream.mark_spawned
mark_spawned(s) == [s EXCEPT !.spawned_next = TRUE]

\* collatz7.py / collatz5.py VerticalNumberStream.should_spawn_next
should_spawn_next(s) == head_y_px(s) >= (s.screen_h \div 2)

\* mutant: finished as soon as the buffer is empty
offscreen_buffer_only(s) == s.char_buffer = <<>>

\* collatz.py ThreadStream.offscreen, collatz7.py VerticalNumberStream.offscreen
offscreen(s) == s.done_emitting /\ s.char_buffer = <<>>

\* collatz5.py VerticalNumberStream.offscreen
c5_offscreen(s) ==
    IF s.char_buffer = <<>>
      THEN FALSE
      ELSE tail_y_px(s) > s.screen_h + s.row_px

(***************************************************************************)
(* Specification of the step function: every n in 1..MaxN, then the chain  *)
(* that iterating the step produces from it.                               *)
(***************************************************************************)
StepIdle   == step_n = 0 /\ step_out = <<>>
AllocIdle  == /\ alloc = <<>> /\ now_ms = 0
              /\ pick_pre = <<>> /\ pick_avoid = None /\ pick_ret = None
CfgIdle    == variant = "" /\ args = <<>>
ScriptIdle == gen = <<>> /\ seq = <<>> /\ proc = <<>> /\ seed = <<>> /\ bright = <<>> /\ matrix = <<>>
StreamIdle == stream = <<>> /\ dt_hist = <<>> /\ spc = "" /\ child_value = None
RainIdle   == /\ streams = <<>> /\ target = 0 /\ pc = "" /\ snapshot = <<>>
              /\ it = 0 /\ dt = 0 /\ running = FALSE /\ deficit = 0
              /\ upd_log = <<>> /\ chk_log = <<>> /\ spawn_log = <<>>
              /\ removed = <<>> /\ n_after_cull = 0 /\ drawn = <<>>
              /\ log = <<>>

InitStep ==
    /\ step_n \in 1 .. MaxN
    /\ step_out = <<>>
    /\ AllocIdle /\ CfgIdle /\ ScriptIdle /\ StreamIdle /\ RainIdle

\* one application of the step, in both textual forms, feeding the next one
ApplyStep ==
    /\ step_out' = [n |-> step_n,
                    ternary |-> collatz_step(step_n),
                    ifelse  |-> collatz3_collatz_step(step_n)]
    /\ step_n' = collatz_step(step_n)
    /\ UNCHANGED <<allocVars, cfgVars, scriptVars, streamVars, rainVars>>

NextStep == ApplyStep

SpecStep == InitStep /\ [][NextStep]_vars

(***************************************************************************)
(* Specification of the allocator alone: any sequence of picks, with any   *)
(* avoid argument, on a clock that never runs backwards.                   *)
(***************************************************************************)
CooldownChoices == {-5, 0, 900, 1000, 2000}
ClockSteps == {0, 500, 1000}
AvoidChoices == {None} \cup (-1 .. MaxCols)

InitAlloc ==
    /\ \E cf \in 0 .. MaxCols, cd \in CooldownChoices :
          alloc = ColumnAllocator(cf, cd)
    /\ now_ms = 0
    /\ pick_pre = <<>> /\ pick_avoid = None /\ pick_ret = None
    /\ StepIdle /\ CfgIdle /\ ScriptIdle /\ StreamIdle /\ RainIdle

\* col = self.alloc.pick(now_ms, avoid)
Pick ==
    \E d \in ClockSteps, avoid \in AvoidChoices :
        /\ now_ms + d <= MaxClock * 500
        /\ now_ms' = now_ms + d
        /\ \E col \in pick_cols(alloc, now_ms', avoid) :
              /\ alloc' = pick_mark(alloc, now_ms', col)
              /\ pick_ret' = col
        /\ pick_pre' = alloc.last_used
        /\ pick_avoid' = avoid
        /\ UNCHANGED <<stepVars, cfgVars, scriptVars, streamVars, rainVars>>

NextAlloc == Pick

SpecAlloc == InitAlloc /\ [][NextAlloc]_vars

(***************************************************************************)
(* The application: command line, seeding, construction of streams.        *)
(* The model runs the programs with --start given (a decimal string, kept  *)
(* as its list of characters); log output is not modelled.                 *)
(***************************************************************************)
Variants == {"collatz", "collatz5", "collatz7"}

DigitValue(ch) == CHOOSE d \in 0 .. 9 : DigitChars[d + 1] = ch

\* int(self.args.start, 10) for a string of decimal digits
RECURSIVE int_base10(_)
int_base10(chars) ==
    IF Len(chars) = 1
      THEN DigitValue(chars[1])
      ELSE 10 * int_base10(SubSeq(chars, 1, Len(chars) - 1))
             + DigitValue(chars[Len(chars)])

\* _seed_value, the branch taken when --start is given
seed_value(a) == Max(1, int_base10(a.start))

\* self.row_px = args.font_size
row_px_of(a) == a.font_size

\* self.cols_fit = max(1, args.width // self.row_px)
cols_fit_of(a) == Max(1, a.width \div row_px_of(a))

\* collatz.py CollatzThreadedRain._new_thread
new_thread(a, value, column) ==
    ThreadStream(value, column, cols_fit_of(a), row_px_of(a), a.height,
                 a.speed, a.digit_gap_rows, a.spawn_after_digits)

\* collatz7.py _new_seed_stream / _spawn_next_from, collatz5.py __init__ /
\* _spawn_next_from: the VerticalNumberStream(...) constructor call
new_vertical(a, value, column) ==
    VerticalNumberStream(value, column, cols_fit_of(a), row_px_of(a), a.height,
                         a.speed, a.digit_gap_rows)

\* the stream class each program instantiates
new_stream(v, a, value, column) ==
    IF v = "collatz" THEN new_thread(a, value, column)
                     ELSE new_vertical(a, value, column)

\* the text "start: " of the log line
start_text == <<"s", "t", "a", "r", "t", ":", " ">>

\* the labels the programs pass to the constructor
label_seed == <<"S", "e", "e", "d", " ">>
label_next == <<"N", "e", "x", "t", " ">>
label_chain(idx) == <<"C", "h", "a", "i", "n", " ">> \o str(idx) \o <<" ">>

\* f"{label}start: {self.value}", as the list of its characters
start_line(label, value) == label \o start_text \o str(value)

\* collatz.py ThreadStream.__init__: if self.log_starts: print(...)
thread_print(a, value) ==
    IF a.log_starts
      THEN <<start_line(<<>>, value)>>
      ELSE <<>>

\* collatz7.py VerticalNumberStream.__init__: if self.log_starts: print(...)
c7_print(a, label, value) ==
    IF a.log_starts
      THEN <<start_line(label, value)>>
      ELSE <<>>

\* collatz5.py VerticalNumberStream.__init__: print(...), unconditionally
c5_print(label, value) == <<start_line(label, value)>>

\* what the constructor of the program's stream class prints
printed(v, a, label, value) ==
    CASE v = "collatz"  -> thread_print(a, value)
      [] v = "collatz7" -> c7_print(a, label, value)
      [] v = "collatz5" -> c5_print(label, value)

\* the label given to the i-th stream that __init__ creates (i from 1)
init_label(v, i) ==
    CASE v = "collatz"  -> <<>>
      [] v = "collatz7" -> label_seed
      [] v = "collatz5" -> label_chain(i - 1)

\* what __init__ prints while it creates the streams ss, in order
RECURSIVE init_log(_, _, _, _)
init_log(v, a, ss, i) ==
    IF i > Len(ss)
      THEN <<>>
      ELSE printed(v, a, init_label(v, i), ss[i].value)
             \o init_log(v, a, ss, i + 1)

\* run(): s.update(dt)
run_update(v, s, dt_ms) ==
    CASE v = "collatz"  -> update(s, dt_ms)
      [] v = "collatz7" -> c7_update(s, dt_ms)
      [] v = "collatz5" -> c5_update(s, dt_ms)

\* mutant: collatz5.py / collatz7.py test the position alone
run_spawn_due_position_only(v, s) ==
    IF v = "collatz"
      THEN wants_next_spawn(s)
      ELSE should_spawn_next(s)

\* run(): the condition under which the loop body spawns from s
run_spawn_due(v, s) ==
    IF v = "collatz"
      THEN wants_next_spawn(s)
      ELSE (~s.spawned_next) /\ should_spawn_next(s)

\* run(): s.offscreen() of the program's stream class
run_offscreen(v, s) ==
    IF v = "collatz5" THEN c5_offscreen(s) ELSE offscreen(s)

(***************************************************************************)
(* Specification of one stream: the loop body of run() applied to a single *)
(* stream (update, then the spawn check), for every program.               *)
(***************************************************************************)
DtChoices == {500, 1000}

Starts == {<<"1">>, <<"2", "7">>, <<"3", "4", "0">>}

StreamArgs ==
    [width : {4}, height : {6}, font_size : {2}, speed : {1, 2},
     digit_gap_rows : {-1, 0, 1}, spawn_after_digits : {0, 2, 5},
     column_cooldown_ms : {900}, min_concurrent : {1}, density10 : {16},
     initial_chains : {1}, start : Starts]

RECURSIVE Sum(_)
Sum(q) == IF q = <<>> THEN 0 ELSE q[1] + Sum(Tail(q))

InitStream ==
    /\ variant \in Variants
    /\ args \in StreamArgs
    /\ stream = new_stream(variant, args, seed_value(args), 0)
    /\ dt_hist = <<>>
    /\ spc = "update"
    /\ child_value = None
    /\ StepIdle /\ AllocIdle /\ ScriptIdle /\ RainIdle

\* s.update(dt)
StreamUpdate ==
    /\ spc = "update"
    /\ \E d \in DtChoices :
          /\ Sum(dt_hist) + d <= MaxStreamSeconds * 1000
          /\ stream' = run_update(variant, stream, d)
          /\ dt_hist' = Append(dt_hist, d)
    /\ spc' = "check"
    /\ UNCHANGED <<child_value, stepVars, allocVars, cfgVars, scriptVars, rainVars>>

\* if s.wants_next_spawn(): self._spawn_next_from(s)
StreamCheck ==
    /\ spc = "check"
    /\ IF run_spawn_due(variant, stream)
         THEN /\ child_value' = collatz_step(stream.value)
              /\ stream' = mark_spawned(stream)
         ELSE UNCHANGED <<stream, child_value>>
    /\ spc' = "update"
    /\ UNCHANGED <<dt_hist, stepVars, allocVars, cfgVars, scriptVars, rainVars>>

NextStream == StreamUpdate \/ StreamCheck

SpecStream == InitStream /\ [][NextStream]_vars

(***************************************************************************)
(* The rain: construction of the application object and run().  run() is   *)
(* followed statement by statement through pc:                             *)
(*   "loop"   top of `while running` (clock.tick, events, list(streams))   *)
(*   "update" s.update(dt) for the stream at the loop position             *)
(*   "check"  the spawn test for that stream, and the spawn                *)
(*   "cull"   the filter that rebuilds self.streams                        *)
(*   "topup"  one iteration of the top-up loop                             *)
(*   "draw"   the draw loop and display.flip()                             *)
(*   "quit"   pygame.quit()                                                *)
(* get_ticks() is read as now_ms, which advances by dt at each tick.       *)
(***************************************************************************)
Indexes(q) == [i \in 1 .. Len(q) |-> i]

\* collatz.py __init__: self.min_concurrent = max(1, args.min_concurrent)
min_concurrent_of(a) == Max(1, a.min_concurrent)

\* collatz7.py __init__: max(cols_fit, int(cols_fit * args.density)),
\* density given in tenths
target_active_of(a) ==
    Max(cols_fit_of(a), int(cols_fit_of(a) * a.density10, 10))

\* collatz.py __init__: one seed; the set of <<alloc, streams>> it can build
collatz_init(a, now) ==
    LET al == ColumnAllocator(cols_fit_of(a), a.column_cooldown_ms) IN
    { <<pick_mark(al, now, col0), <<new_thread(a, seed_value(a), col0)>> >> :
        col0 \in pick_cols(al, now, None) }

\* collatz7.py __init__: for _ in range(self.cols_fit): pick, append a seed
RECURSIVE c7_seed_loop(_, _, _, _, _)
c7_seed_loop(a, now, al, ss, k) ==
    IF k = 0
      THEN { <<al, ss>> }
      ELSE UNION { c7_seed_loop(a, now, pick_mark(al, now, col),
                                Append(ss, new_vertical(a, seed_value(a), col)),
                                k - 1) :
                   col \in pick_cols(al, now, None) }

\* collatz7.py __init__
c7_init(a, now) ==
    c7_seed_loop(a, now, ColumnAllocator(cols_fit_of(a), a.column_cooldown_ms),
                 <<>>, cols_fit_of(a))

\* random.shuffle(cols): every ordering of the columns
Shuffles(n) ==
    { p \in [1 .. n -> 0 .. (n - 1)] : \A i, j \in 1 .. n : i # j => p[i] # p[j] }

\* collatz5.py _pick_distinct_columns
pick_distinct_columns(cols_fit, count) ==
    { [i \in 1 .. count |-> cols[((i - 1) % cols_fit) + 1]] :
        cols \in Shuffles(cols_fit) }

\* collatz5.py __init__: one stream per start column (no allocator)
c5_init(a) ==
    { << <<>>, [i \in 1 .. Len(sc) |-> new_vertical(a, seed_value(a), sc[i])] >> :
        sc \in pick_distinct_columns(cols_fit_of(a), a.initial_chains) }

\* collatz5.py _choose_next_column
choose_next_column(cols_fit, avoid_col) ==
    IF cols_fit <= 1 \/ avoid_col = None
      THEN 0 .. (cols_fit - 1)
      ELSE IF {c \in 0 .. (cols_fit - 1) : c # avoid_col} # {}
             THEN {c \in 0 .. (cols_fit - 1) : c # avoid_col}
             ELSE {avoid_col}

\* mutant: the loop walks self.streams itself, seeing the children appended
iterated_live(snap, live) == Indexes(live)

\* run(): `for s in list(self.streams)` walks the copy made at the top of the
\* loop, not the list the children are appended to
iterated(snap, live) == snap

\* mutant: the filter keeps every stream
keep_all(v, ss) == ss

\* run(): [s for s in self.streams if not s.offscreen()]
RECURSIVE keep(_, _)
keep(v, ss) ==
    IF ss = <<>>
      THEN <<>>
      ELSE IF run_offscreen(v, Head(ss))
             THEN keep(v, Tail(ss))
             ELSE <<Head(ss)>> \o keep(v, Tail(ss))

\* what the filter drops (history only)
RECURSIVE dropped(_, _, _)
dropped(v, before, after) ==
    IF before = <<>>
      THEN <<>>
      ELSE IF after # <<>> /\ Head(before) = Head(after)
             THEN dropped(v, Tail(before), Tail(after))
             ELSE <<Head(before)>> \o dropped(v, Tail(before), after)

\* mutant: tops up while len(self.streams) <= self.min_concurrent
top_up_more_le(n, min_concurrent) == n <= min_concurrent

\* collatz.py _top_up_min_concurrent: while len(self.streams) < self.min_concurrent
top_up_more(n, min_concurrent) == n < min_concurrent

\* collatz7.py _top_up_density: range(max(0, deficit)),
\* deficit = self.target_active - len(self.streams)
top_up_deficit(n, target_active) == Max(0, target_active - n)

\* the command lines run() is started with; the last one is the top-up
\* scenario with a baseline of six streams
RainArgs ==
    [width : {2, 4}, height : {4}, font_size : {2}, speed : {2},
     digit_gap_rows : {0, 1}, spawn_after_digits : {1, 2},
     column_cooldown_ms : {0, 900}, min_concurrent : {1, 3}, density10 : {16},
     initial_chains : {1, 3}, start : {<<"1">>, <<"2", "7">>},
     log_starts : {TRUE}]
    \cup
    [width : {2}, height : {4}, font_size : {2}, speed : {2},
     digit_gap_rows : {0}, spawn_after_digits : {1},
     column_cooldown_ms : {900}, min_concurrent : {6}, density10 : {16},
     initial_chains : {1}, start : {<<"2", "7">>}, log_starts : {FALSE}]

InitRain ==
    /\ variant \in Variants
    /\ args \in RainArgs
    /\ now_ms = 0
    /\ \E built \in CASE variant = "collatz"  -> collatz_init(args, 0)
                      [] variant = "collatz7" -> c7_init(args, 0)
                      [] variant = "collatz5" -> c5_init(args) :
          /\ alloc = built[1]
          /\ streams = built[2]
          /\ log = init_log(variant, args, built[2], 1)
    /\ target = CASE variant = "collatz"  -> min_concurrent_of(args)
                  [] variant = "collatz7" -> target_active_of(args)
                  [] variant = "collatz5" -> 0
    /\ pc = "loop"
    /\ running = TRUE
    /\ snapshot = <<>> /\ it = 0 /\ dt = 0 /\ deficit = 0
    /\ upd_log = <<>> /\ chk_log = <<>> /\ spawn_log = <<>>
    /\ removed = <<>> /\ n_after_cull = 0 /\ drawn = <<>>
    /\ pick_pre = <<>> /\ pick_avoid = None /\ pick_ret = None
    /\ StepIdle /\ ScriptIdle /\ StreamIdle

\* where the for loop goes after position i
after_item(i) ==
    IF i > Len(iterated(snapshot, streams)) THEN "cull" ELSE "update"

\* while running: dt = clock.tick(fps) / 1000.0; the event loop; the copy
\* list(self.streams) the for loop iterates
TickBegin ==
    /\ pc = "loop"
    /\ running
    /\ \E d \in DtChoices, quit \in BOOLEAN :
          /\ now_ms + d <= MaxSeconds * 1000
          /\ now_ms' = now_ms + d
          /\ dt' = d
          /\ running' = ~quit
    /\ snapshot' = Indexes(streams)
    /\ it' = 1
    /\ pc' = IF Len(streams) = 0 THEN "cull" ELSE "update"
    /\ upd_log' = <<>> /\ chk_log' = <<>> /\ spawn_log' = <<>>
    /\ removed' = <<>>
    /\ UNCHANGED <<streams, target, deficit, n_after_cull, drawn, alloc,
                   pick_pre, pick_avoid, pick_ret, log, stepVars, cfgVars,
                   scriptVars, streamVars>>

\* s.update(dt)
TickUpdate ==
    /\ pc = "update"
    /\ LET i == iterated(snapshot, streams)[it] IN
          /\ streams' = [streams EXCEPT ![i] = run_update(variant, @, dt)]
          /\ upd_log' = Append(upd_log, i)
    /\ pc' = "check"
    /\ UNCHANGED <<target, snapshot, it, dt, running, deficit, chk_log,
                   spawn_log, removed, n_after_cull, drawn, allocVars,
                   log, stepVars, cfgVars, scriptVars, streamVars>>

\* the spawn test found false: nothing happens
NoSpawn ==
    /\ pc = "check"
    /\ ~run_spawn_due(variant, streams[iterated(snapshot, streams)[it]])
    /\ chk_log' = Append(chk_log, iterated(snapshot, streams)[it])
    /\ it' = it + 1
    /\ pc' = after_item(it + 1)
    /\ UNCHANGED <<streams, target, snapshot, dt, running, deficit, upd_log,
                   spawn_log, removed, n_after_cull, drawn, allocVars,
                   log, stepVars, cfgVars, scriptVars, streamVars>>

\* collatz.py / collatz7.py: the spawn test found true; _spawn_next_from(s)
\* with the allocator, and the parent marked
SpawnAlloc ==
    /\ pc = "check"
    /\ variant \in {"collatz", "collatz7"}
    /\ LET i == iterated(snapshot, streams)[it]
           parent == streams[i]
           nxt == collatz_step(parent.value)
       IN /\ run_spawn_due(variant, parent)
          /\ \E col \in pick_cols(alloc, now_ms, parent.column) :
                /\ alloc' = pick_mark(alloc, now_ms, col)
                /\ pick_ret' = col
                /\ streams' = Append([streams EXCEPT ![i] = mark_spawned(@)],
                                     new_stream(variant, args, nxt, col))
          /\ pick_pre' = alloc.last_used
          /\ pick_avoid' = parent.column
          /\ chk_log' = Append(chk_log, i)
          /\ spawn_log' = Append(spawn_log, <<i, Len(streams) + 1>>)
          /\ log' = log \o printed(variant, args, label_next, nxt)
    /\ it' = it + 1
    /\ pc' = IF it + 1 > Len(iterated(snapshot, streams')) THEN "cull" ELSE "update"
    /\ UNCHANGED <<target, snapshot, dt, running, deficit, upd_log, removed,
                   n_after_cull, drawn, now_ms, stepVars, cfgVars, scriptVars,
                   streamVars>>

\* collatz5.py: s.spawned_next = True; self._spawn_next_from(s)
SpawnChoose ==
    /\ pc = "check"
    /\ variant = "collatz5"
    /\ LET i == iterated(snapshot, streams)[it]
           parent == streams[i]
           nxt == collatz_step(parent.value)
       IN /\ run_spawn_due(variant, parent)
          /\ \E col \in choose_next_column(cols_fit_of(args), parent.column) :
                streams' = Append([streams EXCEPT ![i] = mark_spawned(@)],
                                  new_stream(variant, args, nxt, col))
          /\ chk_log' = Append(chk_log, i)
          /\ spawn_log' = Append(spawn_log, <<i, Len(streams) + 1>>)
          /\ log' = log \o printed(variant, args, label_next, nxt)
    /\ it' = it + 1
    /\ pc' = IF it + 1 > Len(iterated(snapshot, streams')) THEN "cull" ELSE "update"
    /\ UNCHANGED <<target, snapshot, dt, running, deficit, upd_log, removed,
                   n_after_cull, drawn, allocVars, stepVars, cfgVars, scriptVars,
                   streamVars>>

\* self.streams = [s for s in self.streams if not s.offscreen()]; collatz7.py
\* then enters _top_up_density, which computes its deficit once
Cull ==
    /\ pc = "cull"
    /\ streams' = keep(variant, streams)
    /\ removed' = dropped(variant, streams, streams')
    /\ n_after_cull' = Len(streams')
    /\ deficit' = IF variant = "collatz7"
                    THEN top_up_deficit(Len(streams'), target)
                    ELSE 0
    /\ pc' = IF variant = "collatz5" THEN "draw" ELSE "topup"
    /\ UNCHANGED <<target, snapshot, it, dt, running, upd_log, chk_log,
                   spawn_log, drawn, allocVars, log, stepVars, cfgVars,
                   scriptVars, streamVars>>

\* whether the top-up loop runs once more
top_up_again ==
    IF variant = "collatz"
      THEN top_up_more(Len(streams), target)
      ELSE deficit > 0

\* one iteration of the top-up loop: col = self.alloc.pick(now_ms); append a seed
TopUpSeed ==
    /\ pc = "topup"
    /\ top_up_again
    /\ \E col \in pick_cols(alloc, now_ms, None) :
          /\ alloc' = pick_mark(alloc, now_ms, col)
          /\ pick_ret' = col
          /\ streams' = Append(streams,
                               new_stream(variant, args, seed_value(args), col))
    /\ pick_pre' = alloc.last_used
    /\ pick_avoid' = None
    /\ deficit' = IF variant = "collatz7" THEN deficit - 1 ELSE deficit
    /\ log' = log \o printed(variant, args, label_seed, seed_value(args))
    /\ UNCHANGED <<target, pc, snapshot, it, dt, running, upd_log, chk_log,
                   spawn_log, removed, n_after_cull, drawn, now_ms,
                   stepVars, cfgVars, scriptVars, streamVars>>

\* the top-up loop ends
TopUpDone ==
    /\ pc = "topup"
    /\ ~top_up_again
    /\ pc' = "draw"
    /\ UNCHANGED <<streams, target, snapshot, it, dt, running, deficit, upd_log,
                   chk_log, spawn_log, removed, n_after_cull, drawn, allocVars,
                   log, stepVars, cfgVars, scriptVars, streamVars>>

\* mutant: the draw pass shows the list as it was before the top-up
Draw_before_top_up ==
    /\ pc = "draw"
    /\ drawn' = SubSeq(streams, 1, n_after_cull)
    /\ pc' = "loop"
    /\ UNCHANGED <<streams, target, snapshot, it, dt, running, deficit, upd_log,
                   chk_log, spawn_log, removed, n_after_cull, allocVars,
                   log, stepVars, cfgVars, scriptVars, streamVars>>

\* for s in self.streams: s.draw(...); pygame.display.flip()
Draw ==
    /\ pc = "draw"
    /\ drawn' = streams
    /\ pc' = "loop"
    /\ UNCHANGED <<streams, target, snapshot, it, dt, running, deficit, upd_log,
                   chk_log, spawn_log, removed, n_after_cull, allocVars,
                   log, stepVars, cfgVars, scriptVars, streamVars>>

\* the while loop ends; pygame.quit()
Quit ==
    /\ pc = "loop"
    /\ ~running
    /\ pc' = "quit"
    /\ UNCHANGED <<streams, target, snapshot, it, dt, running, deficit, upd_log,
                   chk_log, spawn_log, removed, n_after_cull, drawn, allocVars,
                   log, stepVars, cfgVars, scriptVars, streamVars>>

NextRain ==
    \/ TickBegin
    \/ TickUpdate
    \/ NoSpawn
    \/ SpawnAlloc
    \/ SpawnChoose
    \/ Cull
    \/ TopUpSeed
    \/ TopUpDone
    \/ Draw
    \/ Quit

SpecRain == InitRain /\ [][NextRain]_vars

(***************************************************************************)
(* Properties                                                              *)
(***************************************************************************)

\* C1: for every positive n, collatz_step(n) is exactly n/2 when n is even
\* and exactly 3n+1 when n is odd, in both textual forms of the function.
C1_StepExact ==
    step_out # <<>> =>
        \A r \in {step_out.ternary, step_out.ifelse} :
            /\ step_out.n % 2 = 0 => 2 * r = step_out.n
            /\ step_out.n % 2 = 1 => r = 3 * step_out.n + 1

C1_Witness ==
    /\ step_out # <<>>
    /\ step_out.n = 27
    /\ step_out.ternary = 82
    /\ step_out.ifelse = 82

\* the allocator as it was when the last pick was called
pick_before == [alloc EXCEPT !.last_used = pick_pre]

\* C2: pick never fails and always returns a column in [0, cols_fit): the
\* column returned by the last pick is valid, and in every reachable state
\* every next call (any avoid, any later time) has a valid column to return.
C2_PickInRange ==
    /\ pick_ret # None => pick_ret \in 0 .. (alloc.cols_fit - 1)
    /\ \A d \in ClockSteps, avoid \in AvoidChoices :
          /\ pick_cols(alloc, now_ms + d, avoid) # {}
          /\ pick_cols(alloc, now_ms + d, avoid) \subseteq 0 .. (alloc.cols_fit - 1)

\* a pick answered by the fallback with several columns, all inside cooldown
C2_Witness ==
    /\ pick_ret # None
    /\ alloc.cols_fit > 1
    /\ choices(pick_before, now_ms, None) = {}
    /\ pick_ret \in 0 .. (alloc.cols_fit - 1)

\* C3: with cols_fit > 1, pick(now_ms, avoid=a) with a in [0, cols_fit)
\* never returns a.
C3_NeverAvoided ==
    (/\ pick_ret # None
     /\ alloc.cols_fit > 1
     /\ pick_avoid \in 0 .. (alloc.cols_fit - 1))
        => pick_ret # pick_avoid

\* C5: once mark_spawned() has been called on a collatz.py stream,
\* wants_next_spawn() is false after every later step, although
\* emitted_total >= trigger_emits stays true.
C5_SpawnLatched ==
    [][(variant = "collatz" /\ stream.spawned_next) =>
          /\ ~wants_next_spawn(stream')
          /\ stream'.emitted_total >= stream'.trigger_emits]_vars

\* a marked stream that went on to emit its third digit and finish emitting
C5_Witness ==
    /\ variant = "collatz"
    /\ spc = "check"
    /\ stream.spawned_next
    /\ stream.trigger_emits = 2
    /\ Len(stream.digits) = 3
    /\ stream.done_emitting
    /\ ~wants_next_spawn(stream)

\* the scenario of C6: value 27, no gap, one row per second, trigger 2,
\* every update with dt = 1.0
Scenario27 ==
    /\ variant = "collatz"
    /\ stream.value = 27
    /\ stream.digit_gap_rows = 0
    /\ stream.rows_per_sec = 1
    /\ stream.trigger_emits = 2
    /\ \A i \in 1 .. Len(dt_hist) : dt_hist[i] = 1000

\* C6: in that scenario the buffer is ['2'] after the 1st update and
\* ['7','2'] after the 2nd; at the 2nd update all digits are emitted,
\* wants_next_spawn() is true for the first time, and the child is 82.
C6_Scenario27 ==
    Scenario27 =>
        /\ Len(dt_hist) = 0 => ~wants_next_spawn(stream)
        /\ Len(dt_hist) = 1 =>
              /\ stream.char_buffer = <<"2">>
              /\ stream.emit_index = 1
              /\ ~wants_next_spawn(stream)
              /\ ~stream.spawned_next
              /\ child_value = None
        /\ (Len(dt_hist) = 2 /\ spc = "check") =>
              /\ stream.char_buffer = <<"7", "2">>
              /\ stream.emit_index = Len(stream.digits)
              /\ wants_next_spawn(stream)
        /\ (Len(dt_hist) = 2 /\ spc = "update") =>
              /\ stream.char_buffer = <<"7", "2">>
              /\ stream.spawned_next
              /\ child_value = 82

C6_Witness ==
    /\ Scenario27
    /\ Len(dt_hist) = 2
    /\ spc = "update"
    /\ child_value = 82

\* the streams of a sequence, as a set
Range(q) == {q[i] : i \in 1 .. Len(q)}

\* every stream the program holds or has just dropped or drawn
Seen == Range(streams) \cup Range(removed) \cup Range(drawn)

IsFresh(s) == s = new_stream(variant, args, s.value, s.column)

\* C7: when n streams remain after the filter and the target is T, the
\* top-up adds exactly max(0, T - n) seed streams and leaves the others
\* alone, so max(n, T) streams are active when drawing starts.
C7_TopUpExact ==
    (variant \in {"collatz", "collatz7"} /\ pc = "draw") =>
        /\ Len(streams) = Max(n_after_cull, target)
        /\ Len(streams) - n_after_cull = Max(0, target - n_after_cull)
        /\ \A i \in (n_after_cull + 1) .. Len(streams) :
              streams[i].value = seed_value(args) /\ streams[i].emit_index = 0

\* two streams remain (the seed and the child it spawned), the target is
\* six: four seeds are added
C7_Witness ==
    /\ variant = "collatz"
    /\ pc = "draw"
    /\ target = 6
    /\ n_after_cull = 2
    /\ Len(streams) = 6
    /\ \A i \in 3 .. 6 : IsFresh(streams[i])

\* the spawn trigger of each program, on the stream's fields
TriggerHolds(s) ==
    IF variant = "collatz"
      THEN s.emitted_total >= s.trigger_emits
      ELSE int(s.head_row * s.row_px, RowScale) >= s.screen_h \div 2

\* C8: at the spawn check of a stream whose trigger holds and that has not
\* spawned, exactly one child is appended, its value is the Collatz step of
\* the parent's value, and the parent is marked; otherwise nothing is added.
C8_SpawnExact ==
    [][pc = "check" =>
         LET i == snapshot[it]
             p == streams[i]
         IN IF TriggerHolds(p) /\ ~p.spawned_next
              THEN /\ Len(streams') = Len(streams) + 1
                   /\ LET c == streams'[Len(streams')] IN
                         /\ p.value % 2 = 0 => 2 * c.value = p.value
                         /\ p.value % 2 = 1 => c.value = 3 * p.value + 1
                         /\ c.digits = str(c.value)
                         /\ c.emit_index = 0
                   /\ streams'[i] = [p EXCEPT !.spawned_next = TRUE]
                   /\ \A j \in 1 .. Len(streams) : j # i => streams'[j] = streams[j]
              ELSE streams' = streams]_vars

\* a tick of collatz.py in which the stream 27 spawned the stream 82
C8_Witness ==
    /\ variant = "collatz"
    /\ pc = "cull"
    /\ \E k \in 1 .. Len(spawn_log) :
          /\ streams[spawn_log[k][1]].value = 27
          /\ streams[spawn_log[k][1]].spawned_next
          /\ streams[spawn_log[k][2]].value = 82

\* C9: the filter removes exactly the streams whose offscreen() is true:
\* none is left when top-up and drawing start or when the next tick begins,
\* none is drawn, and every stream it drops is finished.
C9_FinishedRemoved ==
    /\ pc \in {"topup", "draw", "loop", "quit"} =>
          \A s \in Range(streams) : ~run_offscreen(variant, s)
    /\ \A s \in Range(drawn) : ~run_offscreen(variant, s)
    /\ \A s \in Range(removed) : run_offscreen(variant, s)
    /\ pc \in {"topup", "draw"} =>
          Len(removed) + n_after_cull = Len(snapshot) + Len(spawn_log)

\* a tick of collatz7.py whose filter dropped a stream while others stayed
C9_Witness ==
    /\ variant = "collatz7"
    /\ pc = "draw"
    /\ removed # <<>>
    /\ streams # <<>>

\* C10: in one tick every stream active at its beginning is updated once
\* and checked once, in order; a stream created during the tick (child or
\* seed) is neither updated nor checked before the next tick.
C10_OncePerTick ==
    /\ pc \in {"update", "check", "cull"} =>
          /\ \A k \in 1 .. Len(upd_log) : upd_log[k] = k
          /\ \A k \in 1 .. Len(chk_log) : chk_log[k] = k
          /\ Len(upd_log) <= Len(snapshot)
          /\ Len(chk_log) <= Len(upd_log)
          /\ Len(streams) = Len(snapshot) + Len(spawn_log)
          /\ \A i \in (Len(snapshot) + 1) .. Len(streams) : IsFresh(streams[i])
    /\ pc = "cull" =>
          /\ Len(upd_log) = Len(snapshot)
          /\ Len(chk_log) = Len(snapshot)
    /\ pc \in {"topup", "draw"} =>
          \A i \in (n_after_cull - Len(spawn_log) + 1) .. Len(streams) :
              IsFresh(streams[i])

\* the loop has finished a tick in which two streams were updated and one
\* of them spawned
C10_Witness ==
    /\ pc = "cull"
    /\ Len(snapshot) >= 2
    /\ upd_log = snapshot
    /\ chk_log = snapshot
    /\ spawn_log # <<>>

(***************************************************************************)
(* Frame-rate independence of a stream.                                    *)
(***************************************************************************)
\* the dt values that advance stream s by a whole number of rows
WholeRowDts(s) == {d \in DtChoices : (s.rows_per_sec * d) % RowScale = 0}

\* the part of a stream that the display shows
Shown(s) == <<s.head_row, s.emit_index, s.done_emitting, s.char_buffer>>

Eligible(c) ==
    /\ c # pick_avoid
    /\ now_ms - pick_pre[c] >= alloc.cooldown_ms

\* now_ms - last_used[c] as the last call saw it
Age(c) == now_ms - pick_pre[c]

\* C12: with cols_fit = 1 every pick returns column 0, whatever now_ms,
\* cooldown_ms and avoid are; with cooldown_ms = 1000, pick(0) followed by
\* pick(500) both return 0, the second one through the fallback.
C12_SingleColumn ==
    alloc.cols_fit = 1 =>
        /\ pick_ret # None => pick_ret = 0
        /\ \A d \in ClockSteps, avoid \in AvoidChoices :
              pick_cols(alloc, now_ms + d, avoid) = {0}
        /\ (/\ alloc.cooldown_ms = 1000
            /\ pick_ret # None
            /\ now_ms = 500
            /\ pick_pre[0] = 0)
              => /\ pick_ret = 0
                 /\ choices(pick_before, now_ms, pick_avoid) = {}

\* pick(0) returned 0 and pick(500) has just returned 0 by the fallback
C12_Witness ==
    /\ alloc.cols_fit = 1
    /\ alloc.cooldown_ms = 1000
    /\ now_ms = 500
    /\ pick_pre = (0 :> 0)
    /\ pick_ret = 0
    /\ ~Eligible(0)
    /\ alloc.last_used[0] = 500

\* C13: whenever some column other than avoid has its cooldown elapsed, pick
\* returns such a column: never the avoided one, never one allocated less
\* than cooldown_ms ago.
C13_EligibleReturned ==
    (/\ pick_ret # None
     /\ \E c \in 0 .. (alloc.cols_fit - 1) : Eligible(c))
        => /\ pick_ret \in 0 .. (alloc.cols_fit - 1)
           /\ pick_ret # pick_avoid
           /\ now_ms - pick_pre[pick_ret] >= alloc.cooldown_ms

\* a call with one column avoided, another inside its cooldown and a third
\* one free, which was returned
C13_Witness ==
    /\ pick_ret # None
    /\ alloc.cols_fit = 3
    /\ pick_avoid \in 0 .. 2
    /\ \E c \in 0 .. 2 :
          /\ c # pick_avoid
          /\ now_ms - pick_pre[c] < alloc.cooldown_ms
          /\ pick_ret \notin {c, pick_avoid}
    /\ Eligible(pick_ret)

\* C14: when no column is eligible, pick returns the column with the largest
\* now_ms - last_used[c], and among the columns that tie for that maximum
\* the one with the lowest index.
C14_FallbackLru ==
    (/\ pick_ret # None
     /\ \A c \in 0 .. (alloc.cols_fit - 1) : ~Eligible(c))
        => /\ \A d \in 0 .. (alloc.cols_fit - 1) : Age(d) <= Age(pick_ret)
           /\ \A d \in 0 .. (pick_ret - 1) : Age(d) < Age(pick_ret)

\* a fallback call that had to break a tie: columns 0 and 1 were last used
\* at the same time, no column is older, and column 0 was returned
C14_Witness ==
    /\ pick_ret = 0
    /\ alloc.cols_fit >= 2
    /\ \A c \in 0 .. (alloc.cols_fit - 1) : ~Eligible(c)
    /\ pick_pre[0] # NeverUsed
    /\ Age(1) = Age(0)
    /\ \A d \in 0 .. (alloc.cols_fit - 1) : Age(d) <= Age(0)

\* C15: each call pick(now_ms, avoid) sets last_used[returned column] to
\* now_ms and leaves last_used of every other column, cols_fit and
\* cooldown_ms unchanged.
C15_PickFrame ==
    [][/\ alloc'.last_used[pick_ret'] = now_ms'
       /\ \A c \in 0 .. (alloc.cols_fit - 1) :
             c # pick_ret' => alloc'.last_used[c] = alloc.last_used[c]
       /\ DOMAIN alloc'.last_used = DOMAIN alloc.last_used
       /\ alloc'.cols_fit = alloc.cols_fit
       /\ alloc'.cooldown_ms = alloc.cooldown_ms]_vars

\* after a call, another column still carries the stamp of an earlier call
C15_Witness ==
    /\ pick_ret # None
    /\ alloc.last_used[pick_ret] = now_ms
    /\ \E c \in 0 .. (alloc.cols_fit - 1) :
          /\ c # pick_ret
          /\ alloc.last_used[c] = pick_pre[c]
          /\ alloc.last_used[c] \notin {NeverUsed, now_ms}

(***************************************************************************)
(* collatz_generator.  A generator object is a record: the module that     *)
(* defines it, its argument, its local n, where it is suspended            *)
(* ("created" before the first next(), "suspended" at the yield,           *)
(* "finished" after the function body has ended), and the history of what  *)
(* it has yielded: the last term, the one before it, and how many.         *)
(***************************************************************************)
GenFiles == {"colltaz1", "updated", "collatz3", "ex"}

\* collatz_generator(start): the generator object, body not yet entered
collatz_generator(file, start) ==
    [file |-> file, start |-> start, n |-> None, at |-> "created",
     last |-> None, prev |-> None, count |-> 0]

\* yield v
yield(g, v) ==
    [g EXCEPT !.n = v, !.at = "suspended",
              !.prev = g.last, !.last = v, !.count = @ + 1]

\* random.getrandbits(k) | 1: every odd number below 2^k
getrandbits_or_1(k) == {IF r % 2 = 0 THEN r + 1 ELSE r : r \in 0 .. (2^k - 1)}

\* colltaz1.py, updated.py: next(g) on the generator that breaks at 1
finite_next(g) ==
    IF g.at = "created"
      THEN {yield(g, g.start)}
      ELSE IF g.n = 1
             THEN {[g EXCEPT !.at = "finished"]}
             ELSE {yield(g, collatz_step(g.n))}

\* collatz3.py, ex.py: next(g) on the generator that reseeds itself at 1
restarting_next(g) ==
    IF g.at = "created"
      THEN {yield(g, g.start)}
      ELSE IF g.n = 1
             THEN {yield(g, v) : v \in getrandbits_or_1(RandBits)}
             ELSE {yield(g, collatz3_collatz_step(g.n))}

\* next(g) of the generator of g's module
gen_next(g) ==
    IF g.file \in {"colltaz1", "updated"}
      THEN finite_next(g)
      ELSE restarting_next(g)

\* whether every character of chars is a decimal digit
all_digits(chars) ==
    \A i \in 1 .. Len(chars) : \E d \in 1 .. 10 : DigitChars[d] = chars[i]

\* int(text, 10): ok is FALSE where Python raises ValueError
int_str(text) ==
    IF text # <<>> /\ text[1] = "-"
      THEN IF Len(text) > 1 /\ all_digits(Tail(text))
             THEN [ok |-> TRUE, value |-> -int_base10(Tail(text))]
             ELSE [ok |-> FALSE, value |-> 0]
      ELSE IF text # <<>> /\ all_digits(text)
             THEN [ok |-> TRUE, value |-> int_base10(text)]
             ELSE [ok |-> FALSE, value |-> 0]

\* --start texts given to ex.py
ExStartStrings == {<<"0">>, <<"-", "5">>, <<"7">>, <<"x">>}

\* ex.py main: the generator arguments built from --start: fixed =
\* int(args.start, 10) for every column, or none when the text is invalid
\* (main prints and returns)
ex_fixed_starts(text) ==
    LET r == int_str(text) IN IF r.ok THEN {r.value} ELSE {}

\* the arguments main() of the module passes to collatz_generator: a random
\* positive value, and for ex.py also the value of --start as it is
main_starts(f) ==
    IF f = "ex"
      THEN (1 .. MaxGenStart) \cup UNION {ex_fixed_starts(x) : x \in ExStartStrings}
      ELSE 1 .. MaxGenStart

InitGen ==
    /\ \E f \in GenFiles :
          \E s \in main_starts(f) : gen = collatz_generator(f, s)
    /\ seq = <<>> /\ proc = <<>> /\ seed = <<>> /\ bright = <<>> /\ matrix = <<>>
    /\ StepIdle /\ AllocIdle /\ CfgIdle /\ StreamIdle /\ RainIdle

\* n = next(self.collatz), returning a term
GenYield ==
    /\ gen.at # "finished"
    /\ gen.count < MaxYields
    /\ \E g \in gen_next(gen) :
          /\ g.at = "suspended"
          /\ gen' = g
    /\ UNCHANGED <<seq, proc, seed, bright, matrix, stepVars, allocVars, cfgVars, streamVars,
                   rainVars>>

\* n = next(self.collatz), raising StopIteration
GenStop ==
    /\ gen.at # "finished"
    /\ \E g \in gen_next(gen) :
          /\ g.at = "finished"
          /\ gen' = g
    /\ UNCHANGED <<seq, proc, seed, bright, matrix, stepVars, allocVars, cfgVars, streamVars,
                   rainVars>>

NextGen == GenYield \/ GenStop

SpecGen == InitGen /\ [][NextGen]_vars

\* C16: collatz_generator(start), in every module that defines it, yields
\* start first, then each next term as collatz_step of the previous one,
\* and is finite: it yields no term after it has yielded 1.
C16_GeneratorFinite ==
    /\ gen.count = 1 => gen.last = gen.start
    /\ gen.count >= 2 => /\ gen.prev # 1
                         /\ gen.last = collatz_step(gen.prev)
    /\ gen.at = "finished" => gen.last = 1

\* the same, for the generators of colltaz1.py and updated.py alone
BreakingGeneratorFinite ==
    gen.file \in {"colltaz1", "updated"} => C16_GeneratorFinite

(***************************************************************************)
(* collatz_sequence of new.py.  The frame of a call is a record: the       *)
(* argument, the local n, the list being built, where the call is          *)
(* ("while" at the loop test, "returned" after the return) and the value   *)
(* returned.                                                               *)
(***************************************************************************)
\* values main() of new.py can draw with random_number(100, 999)
RandomPicks == {100, 703, 871, 999}

\* collatz_sequence(n): sequence = [n]
collatz_sequence(n) ==
    [arg |-> n, n |-> n, sequence |-> <<n>>, at |-> "while", result |-> <<>>]

\* mutant: the list is appended to before n is updated
while_body_append_first(f) ==
    [f EXCEPT !.n = IF f.n % 2 = 0 THEN f.n \div 2 ELSE 3 * f.n + 1,
              !.sequence = Append(@, f.n)]

\* collatz_sequence: the body of `while n != 1`
while_body(f) ==
    LET m == IF f.n % 2 = 0 THEN f.n \div 2 ELSE 3 * f.n + 1
    IN  [f EXCEPT !.n = m, !.sequence = Append(@, m)]

InitSeq ==
    /\ \E n \in (1 .. MaxSeqStart) \cup RandomPicks : seq = collatz_sequence(n)
    /\ gen = <<>> /\ proc = <<>> /\ seed = <<>> /\ bright = <<>> /\ matrix = <<>>
    /\ StepIdle /\ AllocIdle /\ CfgIdle /\ StreamIdle /\ RainIdle

\* one iteration of the while loop
SeqIterate ==
    /\ seq.at = "while"
    /\ seq.n # 1
    /\ seq' = while_body(seq)
    /\ UNCHANGED <<gen, proc, seed, bright, matrix, stepVars, allocVars, cfgVars, streamVars,
                   rainVars>>

\* the loop test fails: return sequence
SeqReturn ==
    /\ seq.at = "while"
    /\ seq.n = 1
    /\ seq' = [seq EXCEPT !.at = "returned", !.result = seq.sequence]
    /\ UNCHANGED <<gen, proc, seed, bright, matrix, stepVars, allocVars, cfgVars, streamVars,
                   rainVars>>

NextSeq == SeqIterate \/ SeqReturn

SpecSeq == InitSeq /\ [][NextSeq]_vars

\* C17: for every sampled n, iterating the step from n reaches 1 within a
\* bounded number of iterations (the loop never runs more than IterationCap
\* times), and the list collatz_sequence(n) returns begins with n, ends
\* with 1 and has each element equal to collatz_step of the one before it.
C17_SequenceTerminates ==
    /\ Len(seq.sequence) - 1 <= IterationCap
    /\ seq.at = "while" => seq.sequence[Len(seq.sequence)] = seq.n
    /\ seq.at = "returned" =>
          /\ seq.result[1] = seq.arg
          /\ seq.result[Len(seq.result)] = 1
          /\ \A i \in 2 .. Len(seq.result) :
                seq.result[i] = collatz_step(seq.result[i - 1])

\* collatz_sequence(27) has returned its 112 terms
C17_Witness ==
    /\ seq.arg = 27
    /\ seq.at = "returned"
    /\ Len(seq.result) = 112
    /\ seq.result[2] = 82
    /\ seq.result[112] = 1

(***************************************************************************)
(* Start-up of a process: main() of colltaz1.py and collatz2.py, which     *)
(* validate --start themselves, and main() of collatz.py, which hands it   *)
(* to _seed_value.  A process is a record: the program, its command line,  *)
(* where it is ("main" before the loop, "loop" inside `while running`,     *)
(* "exited"), how many columns or streams it has created and from which    *)
(* fixed value, what it wrote to stderr, whether it saw a QUIT event, the  *)
(* number of loop iterations and the exit status.                          *)
(***************************************************************************)
ProcFiles == {"colltaz1", "collatz2", "collatz"}

\* command lines: --start absent, or one of these strings
StartStrings ==
    {<<"1", "0", "0", "0", "0", "0", "0", "0", "0", "0">>,
     <<"2", "7">>,
     <<"1", "2", "3", "4", "5", "6", "7", "8", "9">>,
     <<"0", "0", "0", "0", "0", "0", "0", "0", "2", "7">>,
     <<"-", "1", "0", "0", "0", "0", "0", "0", "0", "0", "0">>,
     <<"1", "2", "x", "4", "5", "6", "7", "8", "9", "0">>,
     <<"x">>}

ProcArgs ==
    [start_given : {TRUE}, start : StartStrings, min_digits : {5, 10, 12},
     columns : {2}, width : {4}, font_size : {2}]
    \cup [start_given : {FALSE}, start : {<<>>}, min_digits : {5, 10, 12},
          columns : {2}, width : {4}, font_size : {2}]

\* abs(x)
abs(x) == IF x < 0 THEN -x ELSE x

\* the process as the interpreter starts main()
process(file, a) ==
    [file |-> file, args |-> a, at |-> "main", created |-> 0,
     fixed_start |-> None, stderr |-> "", quit |-> FALSE, ticks |-> 0,
     status |-> None]

\* main() returns (or an exception leaves it): the interpreter exits
exit(p, status) == [p EXCEPT !.at = "exited", !.status = status]

\* colltaz1.py / collatz2.py main: columns_count = min(args.columns, cols_fit)
columns_count(a) == Min(a.columns, a.width \div a.font_size)

\* colltaz1.py / collatz2.py main, from the validation of --start to the
\* top of the loop
matrix_startup(p) ==
    LET a == p.args
        r == int_str(a.start)
    IN  IF ~a.start_given
          THEN [p EXCEPT !.created = columns_count(a), !.at = "loop"]
          ELSE IF ~r.ok
            THEN exit([p EXCEPT !.stderr =
                         "Invalid --start; must be a decimal integer"], 0)
            ELSE IF Len(str(abs(r.value))) < Max(10, a.min_digits)
              THEN exit([p EXCEPT !.stderr =
                           "Fixed start must have at least 10 digits"], 0)
              ELSE [p EXCEPT !.fixed_start = Max(1, r.value),
                             !.created = columns_count(a),
                             !.at = "loop"]

\* collatz.py main: CollatzThreadedRain(args) seeds one stream through
\* _seed_value; an uncaught ValueError ends the process with status 1
threaded_startup(p) ==
    LET a == p.args
        r == int_str(a.start)
    IN  IF ~a.start_given
          THEN [p EXCEPT !.created = 1, !.at = "loop"]
          ELSE IF ~r.ok
            THEN exit([p EXCEPT !.stderr = "ValueError"], 1)
            ELSE [p EXCEPT !.fixed_start = Max(1, r.value),
                           !.created = 1,
                           !.at = "loop"]

InitProc ==
    /\ \E f \in ProcFiles, a \in ProcArgs : proc = process(f, a)
    /\ gen = <<>> /\ seq = <<>> /\ seed = <<>> /\ bright = <<>> /\ matrix = <<>>
    /\ StepIdle /\ AllocIdle /\ CfgIdle /\ StreamIdle /\ RainIdle

\* main() up to the loop
Startup ==
    /\ proc.at = "main"
    /\ proc' = IF proc.file = "collatz"
                 THEN threaded_startup(proc)
                 ELSE matrix_startup(proc)
    /\ UNCHANGED <<gen, seq, seed, bright, matrix, stepVars, allocVars, cfgVars, streamVars,
                   rainVars>>

\* one iteration of `while running`, with or without a QUIT event
LoopTick ==
    /\ proc.at = "loop"
    /\ ~proc.quit
    /\ proc.ticks < MaxTicks
    /\ \E quit \in BOOLEAN :
          proc' = [proc EXCEPT !.ticks = @ + 1, !.quit = quit]
    /\ UNCHANGED <<gen, seq, seed, bright, matrix, stepVars, allocVars, cfgVars, streamVars,
                   rainVars>>

\* running is False: pygame.quit(), main() returns
Leave ==
    /\ proc.at = "loop"
    /\ proc.quit
    /\ proc' = exit(proc, 0)
    /\ UNCHANGED <<gen, seq, seed, bright, matrix, stepVars, allocVars, cfgVars, streamVars,
                   rainVars>>

NextProc == Startup \/ LoopTick \/ Leave

SpecProc == InitProc /\ [][NextProc]_vars

\* a configured fixed start that is not a decimal integer, or that has fewer
\* decimal digits than min_digits
BadStart(a) ==
    /\ a.start_given
    /\ \/ ~int_str(a.start).ok
       \/ Len(str(abs(int_str(a.start).value))) < a.min_digits

\* C18: a fixed start that is not a decimal integer, or has fewer decimal
\* digits than min_digits, is rejected at startup: no stream or column is
\* ever created from it and the tick loop is never entered.
C18_BadStartRejected ==
    BadStart(proc.args) =>
        /\ proc.created = 0
        /\ proc.fixed_start = None
        /\ proc.at # "loop"
        /\ proc.ticks = 0

\* the same, for colltaz1.py and collatz2.py alone
MatrixBadStartRejected ==
    proc.file # "collatz" => C18_BadStartRejected

\* C19: the process exits with status 0 when the user quits and with a
\* non-zero status when the configuration is rejected (invalid or too
\* short --start).
C19_ExitStatus ==
    proc.at = "exited" =>
        /\ proc.quit => proc.status = 0
        /\ (~proc.quit /\ proc.ticks = 0) => proc.status # 0

(***************************************************************************)
(* Liveness of the spawn request.  run() never stops ticking on its own,   *)
(* so the loop body of a stream is taken again and again: weak fairness on *)
(* it.  The model follows the stream for MaxStreamSeconds seconds only;    *)
(* HorizonIsFinal shows that nothing is cut short by that.                 *)
(***************************************************************************)
SpecStreamFair == SpecStream /\ WF_vars(NextStream)

\* a collatz.py stream that has emitted every digit it has without reaching
\* trigger_emits, and has not spawned
Stuck(s) ==
    /\ variant = "collatz"
    /\ ~s.spawned_next
    /\ s.emit_index = Len(s.digits)
    /\ s.emitted_total < s.trigger_emits

\* the stream has been followed to the end of the modelled time
HorizonReached ==
    /\ spc = "update"
    /\ \A d \in DtChoices : Sum(dt_hist) + d > MaxStreamSeconds * 1000

\* a stream that has not spawned when the modelled time ends is stuck, and
\* a stuck stream stays stuck under every further update and check
HorizonIsFinal ==
    /\ (HorizonReached /\ ~stream.spawned_next) => Stuck(stream)
    /\ Stuck(stream) =>
          \A d \in DtChoices :
              /\ Stuck(run_update(variant, stream, d))
              /\ ~run_spawn_due(variant, run_update(variant, stream, d))

\* C20: under repeated ticks with dt > 0 every stream eventually spawns one
\* child (its spawn flag goes from false to true), and the flag never
\* returns to false.
C20_EventuallySpawns ==
    /\ <>(stream.spawned_next)
    /\ [][stream.spawned_next => stream'.spawned_next]_vars

(***************************************************************************)
(* The rain as a whole: concurrency, drawing.                              *)
(***************************************************************************)
\* a tick of run() has just completed
TickDone == pc = "loop" /\ dt > 0

\* C21: after every tick the number of active streams does not exceed the
\* configured target (min_concurrent in collatz.py, target_active in
\* collatz7.py).
C21_WithinTarget ==
    (TickDone /\ variant \in {"collatz", "collatz7"})
        => Len(streams) <= target

SeedFiles == {"collatz", "collatz2"}

\* the configured pairs (--min-digits, --max-digits)
DigitPairs == {5, 10, 12} \X {8, 10, 11, 13}

\* the numeral made of n copies of character ch
repeat(ch, n) == [i \in 1 .. n |-> ch]

\* 10 ** (k - 1)
ten_pow_numeral(k) == <<"1">> \o repeat("0", k - 1)

\* 10 ** k - 1
ten_pow_minus_1_numeral(k) == repeat("9", k)

\* a <= b for numerals without leading zero
numeral_le(a, b) ==
    \/ Len(a) < Len(b)
    \/ /\ Len(a) = Len(b)
       /\ \/ a = b
          \/ \E i \in 1 .. Len(a) :
                /\ DigitValue(a[i]) < DigitValue(b[i])
                /\ \A j \in 1 .. (i - 1) : a[j] = b[j]

\* random.randrange(lo, hi + 1): lo, hi, and the values in between whose
\* digits after the first are all alike (a sample of the range)
randrange_sample(lo, hi) ==
    {v \in {lo, hi} \cup
           {<<DigitChars[d + 1]>> \o repeat(DigitChars[e + 1], Len(lo) - 1) :
               d \in {1, 5, 9}, e \in {0, 5, 9}} :
        numeral_le(lo, v) /\ numeral_le(v, hi)}

\* dmin = max(10, min_digits); dmax = max(dmin, max_digits);
\* the values random.randint(dmin, dmax) can return
digit_range(min_digits, max_digits) ==
    Max(10, min_digits) .. Max(Max(10, min_digits), max_digits)

\* the records a call that drew k can return
random_seed_with(s, k) ==
    {[s EXCEPT !.at = "returned", !.k = k,
               !.lo = ten_pow_numeral(k), !.hi = ten_pow_minus_1_numeral(k),
               !.value = v] :
        v \in randrange_sample(ten_pow_numeral(k), ten_pow_minus_1_numeral(k))}

\* the random branch of the seeding function: k = random.randint(dmin, dmax);
\* lo, hi = 10 ** (k - 1), 10 ** k - 1; return random.randrange(lo, hi + 1)
random_seed(s) ==
    UNION {random_seed_with(s, k) :
              k \in digit_range(s.min_digits, s.max_digits)}

InitSeed ==
    /\ \E f \in SeedFiles, p \in DigitPairs :
          seed = [file |-> f, min_digits |-> p[1], max_digits |-> p[2],
                  at |-> "call", k |-> 0, lo |-> <<>>, hi |-> <<>>,
                  value |-> <<>>]
    /\ gen = <<>> /\ seq = <<>> /\ proc = <<>> /\ bright = <<>> /\ matrix = <<>>
    /\ StepIdle /\ AllocIdle /\ CfgIdle /\ StreamIdle /\ RainIdle

\* value = self._seed_value() with no --start
SeedDraw ==
    /\ seed.at = "call"
    /\ seed' \in random_seed(seed)
    /\ UNCHANGED <<gen, seq, proc, bright, matrix, stepVars, allocVars, cfgVars, streamVars,
                   rainVars>>

NextSeed == SeedDraw

SpecSeed == InitSeed /\ [][NextSeed]_vars

\* C23: every randomly generated seed value has a number of decimal digits
\* k with min_digits <= k <= max_digits, for every configured pair, and is
\* a positive integer with no leading zero: 10^(k-1) <= value <= 10^k - 1.
C23_SeedDigits ==
    seed.at = "returned" =>
        /\ seed.min_digits <= Len(seed.value)
        /\ Len(seed.value) <= seed.max_digits
        /\ seed.value[1] # "0"
        /\ numeral_le(ten_pow_numeral(Len(seed.value)), seed.value)
        /\ numeral_le(seed.value, ten_pow_minus_1_numeral(Len(seed.value)))

\* the part that does not depend on the pair being one the programs honour
SeedWellFormed ==
    seed.at = "returned" =>
        /\ Len(seed.value) = seed.k
        /\ Max(10, seed.min_digits) <= seed.k
        /\ seed.k <= Max(Max(10, seed.min_digits), seed.max_digits)
        /\ seed.value[1] # "0"
        /\ numeral_le(seed.lo, seed.value)
        /\ numeral_le(seed.value, seed.hi)

(***************************************************************************)
(* The start log.                                                          *)
(***************************************************************************)
\* line ends with the text "start: <value>" (a label may precede it)
IsStartLine(line, value) ==
    LET want == start_text \o str(value) IN
    /\ Len(line) >= Len(want)
    /\ SubSeq(line, Len(line) - Len(want) + 1, Len(line)) = want

\* the lines that creating the streams ss must have written, in order
ExpectedLines(ss, lines) ==
    IF args.log_starts
      THEN /\ Len(lines) = Len(ss)
           /\ \A i \in 1 .. Len(ss) : IsStartLine(lines[i], ss[i].value)
      ELSE lines = <<>>

\* the streams a step has appended to the active list
Appended(before, after) == SubSeq(after, Len(before) + 1, Len(after))

\* C24: when log_starts is set, creating a stream (seed or child) writes
\* exactly one line "start: <value>" carrying that stream's starting value,
\* in creation order; when log_starts is not set, creating a stream writes
\* nothing.  Stated on the streams __init__ creates and then on every step:
\* a step that appends streams to the active list extends the log by their
\* lines and by nothing else, any other step leaves the log alone.
C24_StartLogged ==
    /\ ExpectedLines(streams, log)
    /\ [][IF Len(streams') > Len(streams)
            THEN /\ SubSeq(log', 1, Len(log)) = log
                 /\ ExpectedLines(Appended(streams, streams'),
                                  SubSeq(log', Len(log) + 1, Len(log')))
            ELSE log' = log]_vars

\* the same, for collatz.py and collatz7.py, which have the --log-starts flag
FlaggedStartLogged ==
    /\ variant # "collatz5" => ExpectedLines(streams, log)
    /\ [][variant # "collatz5" =>
            IF Len(streams') > Len(streams)
              THEN /\ SubSeq(log', 1, Len(log)) = log
                   /\ ExpectedLines(Appended(streams, streams'),
                                    SubSeq(log', Len(log) + 1, Len(log')))
              ELSE log' = log]_vars

(***************************************************************************)
(* Screen position of the buffered digits                                  *)
(***************************************************************************)
\* ThreadStream.draw: y_px = head_y - i * self.row_px for buffer index i
\* (i counts from 0 at the head)
y_px(s, i) == head_y_px(s) - i * s.row_px

\* C25: with digit_gap_rows = g, two digits emitted one after the other and
\* both in the visible buffer are drawn g + 1 screen rows apart.
C25_GapRows ==
    \A i \in 1 .. Len(stream.char_buffer) - 1 :
        y_px(stream, i - 1) - y_px(stream, i)
            = (stream.digit_gap_rows + 1) * stream.row_px

\* what the draw pass does: neighbours of the buffer are always one row
\* apart, whatever the gap
AdjacentRows ==
    \A i \in 1 .. Len(stream.char_buffer) - 1 :
        y_px(stream, i - 1) - y_px(stream, i) = stream.row_px

\* C26: collatz_step is only ever applied to positive integers: whatever
\* --start the user gives, every value a column or stream carries is >= 1.
C26_PositiveValues ==
    gen.count >= 1 => gen.last >= 1

\* the programs that clamp the start with max(1, ...) keep the value positive
ClampedPositive ==
    /\ (gen # <<>> /\ gen.count >= 1 /\ gen.file # "ex") => gen.last >= 1
    /\ stream # <<>> => stream.value >= 1
    /\ \A i \in 1 .. Len(streams) : streams[i].value >= 1

(***************************************************************************)
(* brightness of draw().  The function works on floats; here a value is a  *)
(* whole number of 1/(100 * BrightScale): t ** 1.2 is computed as          *)
(* t * t ** (1/5), the fifth root rounded down to 1/BrightScale.  0.35,    *)
(* 0.65, 0.0 and 1.0 are exact at this resolution; the rounding of the     *)
(* interpreter's floats is not represented.                                *)
(***************************************************************************)
MaxHeightPx == 8

BrightScale == 40

\* t = max(0.0, min(1.0, y_px / height_px)), as the numerator over height_px
clamp_t(y, height_px) == Max(0, Min(height_px, y))

\* (num / den) ** (1/5) in 1/BrightScale, rounded down
root5(num, den) ==
    LET x == (num * BrightScale ^ 5) \div den IN
    CHOOSE r \in 0 .. BrightScale : r ^ 5 <= x /\ x < (r + 1) ^ 5

\* (num / den) ** 1.2 in 1/BrightScale, rounded down
pow_1_2(num, den) == (num * root5(num, den)) \div den

\* mutant: the ramp runs the other way, 0.35 + 0.65 * (1 - t ** 1.2)
brightness_fading(y, height_px) ==
    35 * BrightScale
      + 65 * (BrightScale - pow_1_2(clamp_t(y, height_px), height_px))

\* brightness(y_px) = 0.35 + 0.65 * (t ** 1.2)
brightness(y, height_px) ==
    35 * BrightScale + 65 * pow_1_2(clamp_t(y, height_px), height_px)

\* one call: the argument, the result, and those of the call before it
shade(b, y) ==
    [height_px |-> b.height_px, y |-> y, value |-> brightness(y, b.height_px),
     last_y |-> b.y, last_value |-> b.value]

InitBright ==
    /\ \E h \in 1 .. MaxHeightPx :
          bright = [height_px |-> h, y |-> 0, value |-> brightness(0, h),
                    last_y |-> 0, last_value |-> brightness(0, h)]
    /\ gen = <<>> /\ seq = <<>> /\ proc = <<>> /\ seed = <<>> /\ matrix = <<>>
    /\ StepIdle /\ AllocIdle /\ CfgIdle /\ StreamIdle /\ RainIdle

\* shade = brightness(y_px) for one buffered digit; y_px may lie a little
\* outside the surface
Shade ==
    /\ \E y \in -2 .. (bright.height_px + 2) : bright' = shade(bright, y)
    /\ UNCHANGED <<gen, seq, proc, seed, matrix, stepVars, allocVars, cfgVars,
                   streamVars, rainVars>>

NextBright == Shade

SpecBright == InitBright /\ [][NextBright]_vars

\* C27: brightness(y) = 0.35 + 0.65 * clamp(y / height, 0, 1) ^ 1.2 does not
\* decrease as y grows within [0, height], is 0.35 at y = 0 and 1.0 at
\* y = height.
C27_Brightness ==
    /\ (0 <= bright.last_y /\ bright.last_y <= bright.y
            /\ bright.y <= bright.height_px)
          => bright.last_value <= bright.value
    /\ bright.y = 0 => bright.value * 100 = 35 * (100 * BrightScale)
    /\ bright.y = bright.height_px => bright.value = 100 * BrightScale

\* two calls inside the surface, the second one lower on the screen and
\* brighter, and neither at an end of the range
C27_Witness ==
    /\ 0 < bright.last_y /\ bright.last_y < bright.y
    /\ bright.y < bright.height_px
    /\ bright.last_value < bright.value

(***************************************************************************)
(* The end of a stream                                                     *)
(***************************************************************************)
\* C28: in collatz.py, under repeated ticks with dt > 0, every ThreadStream
\* eventually has emitted everything and lost every buffered digit to the
\* top cull, so that offscreen() holds and run() drops it from the list.
C28_TopCullRemoves ==
    <>(variant = "collatz" => offscreen(stream))

\* in collatz.py the tail of the buffer is never above the top edge, so the
\* cull test of update() fails and the buffer holds every emitted digit; a
\* stream that has emitted everything keeps its buffer under every further
\* update, and offscreen() stays false
TopCullNeverFires ==
    variant = "collatz" =>
        /\ stream.char_buffer # <<>> => tail_y_px(stream) >= 0
        /\ Len(stream.char_buffer) = stream.emit_index
        /\ stream.done_emitting =>
              /\ ~offscreen(stream)
              /\ \A d \in DtChoices :
                    LET t == update(stream, d) IN
                    /\ t.done_emitting
                    /\ t.char_buffer = stream.char_buffer
                    /\ tail_y_px(t) >= tail_y_px(stream)

\* C29: in collatz7.py, under repeated ticks with dt > 0, a stream first
\* finishes emitting and then loses its digits from the tail at the bottom
\* edge, and it is removed (offscreen() holds when run() filters the list)
\* in the tick in which char_buffer becomes empty.
C29_RemovedWhenEmptied ==
    [][(variant = "collatz7" /\ stream.char_buffer # <<>>
            /\ stream'.char_buffer = <<>>)
          => offscreen(stream')]_vars

\* what collatz7.py's update does at the bottom edge: an update takes at
\* most one digit, the tail, and only when the tail was drawn at or below
\* screen_h - 1; a stream that is empty while still emitting is kept
BottomCullSteps ==
    [][(variant = "collatz7" /\ stream'.char_buffer # stream.char_buffer) =>
          LET t == v_emit_rows(advance(stream, dt_hist'[Len(dt_hist')])) IN
          /\ stream'.char_buffer \in
                {t.char_buffer, SubSeq(t.char_buffer, 1, Len(t.char_buffer) - 1)}
          /\ stream'.char_buffer # t.char_buffer => tail_y_px(t) >= t.screen_h - 1]_vars

(***************************************************************************)
(* Emission rate                                                           *)
(***************************************************************************)
\* whole rows the head has crossed since the stream was created
rows_crossed == (Sum(dt_hist) * stream.rows_per_sec) \div RowScale

\* C30: with digit_gap_rows = 0 a stream emits one digit per whole row its
\* head advances: after the head has crossed k whole rows, exactly
\* min(k, len(digits)) digits have been emitted.
C30_DigitPerRow ==
    stream.digit_gap_rows = 0 =>
        stream.emit_index = Min(rows_crossed, Len(stream.digits))

\* what update() does: a digit is emitted on the first row step and then on
\* every (digit_gap_rows + 2)-th one, and collatz.py's row_accum starts at
\* 1.0, one row step ahead of the head from the first update on
row_steps ==
    IF variant = "collatz" /\ dt_hist # <<>>
      THEN rows_crossed + 1
      ELSE rows_crossed

EmissionRate ==
    LET g == stream.digit_gap_rows IN
    stream.emit_index
        = Min((row_steps + g + 1) \div (g + 2), Len(stream.digits))

(***************************************************************************)
(* The visible buffer                                                      *)
(***************************************************************************)
\* C31: after any sequence of updates, 0 <= emit_index <= len(digits),
\* len(char_buffer) <= emit_index, and char_buffer is newest first: entry i
\* (counted from 0 at the head) is digits[emit_index - 1 - i], so the buffer
\* is the most recently emitted digits in reverse order of emission and
\* culling only removes from the tail.
C31_BufferNewestFirst ==
    /\ 0 <= stream.emit_index
    /\ stream.emit_index <= Len(stream.digits)
    /\ Len(stream.char_buffer) <= stream.emit_index
    /\ \A j \in 1 .. Len(stream.char_buffer) :
          stream.char_buffer[j] = stream.digits[stream.emit_index - j + 1]

\* a stream that has emitted three digits and lost the oldest one: the two
\* newest are buffered, head first
C31_Witness ==
    /\ dt_hist # <<>>
    /\ stream.emit_index = 3
    /\ Len(stream.char_buffer) = 2
    /\ stream.char_buffer[1] = stream.digits[3]
    /\ stream.char_buffer[2] = stream.digits[2]

(***************************************************************************)
(* One child per stream                                                    *)
(***************************************************************************)
\* C32: over any sequence of ticks each stream is the parent of at most one
\* child, in collatz.py, collatz5.py and collatz7.py: a child is appended
\* only at the check of a stream whose spawned_next is false, that check
\* sets the flag, the flag of a stream in the list never returns to false,
\* and the check of a stream whose flag is set adds nothing, even while
\* the position test should_spawn_next() is still true.
C32_OneChild ==
    [][/\ pc = "check" =>
            LET i == snapshot[it] IN
            /\ streams[i].spawned_next => streams' = streams
            /\ streams' # streams =>
                  /\ Len(streams') = Len(streams) + 1
                  /\ ~streams[i].spawned_next
                  /\ streams'[i].spawned_next
       /\ Len(streams') >= Len(streams) =>
            \A j \in 1 .. Len(streams) :
                streams[j].spawned_next => streams'[j].spawned_next
       /\ Len(streams') < Len(streams) =>
            Range(streams') \subseteq Range(streams)]_vars

\* the check of a collatz5.py / collatz7.py stream that has already spawned
\* and is still at or below the trigger row
C32_Witness ==
    /\ pc = "check"
    /\ variant \in {"collatz5", "collatz7"}
    /\ Len(streams) >= 2
    /\ streams[snapshot[it]].spawned_next
    /\ should_spawn_next(streams[snapshot[it]])

(***************************************************************************)
(* MatrixColumn of collatz2.py (integer state current_n) and colltaz1.py   *)
(* (generator state).  A column is a record of the object's fields; three  *)
(* more fields are history kept for the properties: emitted (every         *)
(* character emitted since the sequence started, newest first), last_n     *)
(* (the last value emitted) and rescheduled_at (now_ms of the last         *)
(* schedule_next).  Rows are in 1/RowScale row, times in ms.  The start is *)
(* the fixed --start value: a random start has at least 10 digits and the  *)
(* sequences of most such numbers leave the integer range of the checker.  *)
(***************************************************************************)
MaxColumnSeconds == 30

\* for ch in str(n): self.char_buffer.insert(0, ch) puts the block in
\* reverse order at the head
RECURSIVE Reverse(_)
Reverse(q) == IF q = <<>> THEN <<>> ELSE Reverse(Tail(q)) \o <<Head(q)>>

\* the fields MatrixColumn.__init__ sets in both programs
column_fields(file, a) ==
    [file                  |-> file,
     h                     |-> a.height,
     font_size             |-> a.font_size,
     speed                 |-> a.speed,
     tail_length           |-> a.tail,
     spawn_min_ms          |-> Max(0, a.spawn_min_ms),
     spawn_max_ms          |-> Max(Max(0, a.spawn_min_ms), a.spawn_max_ms),
     block_gap_rows        |-> Max(0, a.block_gap_rows),
     fixed_start           |-> a.fixed_start,
     sequence_finished     |-> FALSE,
     active                |-> FALSE,
     head_row              |-> 0,
     row_accum             |-> 0,
     rows_until_next_block |-> 0,
     char_buffer           |-> <<>>,
     t_next_spawn          |-> 0,
     emitted               |-> <<>>,
     last_n                |-> None,
     rescheduled_at        |-> None]

\* collatz2.py MatrixColumn.__init__
MatrixColumn(a) == column_fields("collatz2", a) @@ [current_n |-> None]

\* colltaz1.py MatrixColumn.__init__ (self.collatz = None)
c1_MatrixColumn(a) == column_fields("colltaz1", a) @@ [collatz |-> <<>>]

\* _random_start_with_min_digits with a fixed start
random_start_with_min_digits(c) == Max(1, c.fixed_start)

\* collatz2.py schedule_next(now_ms), wait being the value randint returned
schedule_next(c, now, wait) ==
    [c EXCEPT !.t_next_spawn = now + wait,
              !.active = FALSE,
              !.sequence_finished = FALSE,
              !.current_n = None,
              !.char_buffer = <<>>,
              !.rescheduled_at = now]

\* colltaz1.py schedule_next(now_ms)
c1_schedule_next(c, now, wait) ==
    [c EXCEPT !.t_next_spawn = now + wait,
              !.active = FALSE,
              !.sequence_finished = FALSE,
              !.char_buffer = <<>>,
              !.rescheduled_at = now]

\* collatz2.py start_new_sequence, rows_above being the value
\* random.uniform returned
start_new_sequence(c, rows_above) ==
    [c EXCEPT !.current_n = random_start_with_min_digits(c),
              !.sequence_finished = FALSE,
              !.head_row = -rows_above,
              !.row_accum = 0,
              !.rows_until_next_block = 0,
              !.char_buffer = <<>>,
              !.active = TRUE,
              !.emitted = <<>>,
              !.last_n = None]

\* colltaz1.py start_new_sequence
c1_start_new_sequence(c, rows_above) ==
    [c EXCEPT !.collatz = collatz_generator("colltaz1",
                                            random_start_with_min_digits(c)),
              !.head_row = -rows_above,
              !.row_accum = 0,
              !.rows_until_next_block = 0,
              !.char_buffer = <<>>,
              !.active = TRUE,
              !.sequence_finished = FALSE,
              !.emitted = <<>>,
              !.last_n = None]

\* max_rows_on_screen = (self.h // self.font_size) + self.tail_length + 16
max_rows_on_screen(c) == (c.h \div c.font_size) + c.tail_length + 16

\* mutant: the block is inserted without the cut to max_rows_on_screen
emit_block_uncut(c, n) ==
    [c EXCEPT !.char_buffer = Reverse(str(n)) \o @,
              !.rows_until_next_block = Len(str(n)) + c.block_gap_rows,
              !.emitted = Reverse(str(n)) \o @,
              !.last_n = n]

\* _emit_block_from_value(n), the same in both programs
emit_block_from_value(c, n) ==
    LET buf == Reverse(str(n)) \o c.char_buffer IN
    [c EXCEPT !.char_buffer = IF Len(buf) > max_rows_on_screen(c)
                                THEN SubSeq(buf, 1, max_rows_on_screen(c))
                                ELSE buf,
              !.rows_until_next_block = Len(str(n)) + c.block_gap_rows,
              !.emitted = Reverse(str(n)) \o @,
              !.last_n = n]

\* mutant: the integer state is stepped before the block is emitted
column_row_step_first(c) ==
    LET t == [c EXCEPT !.row_accum = @ - RowScale] IN
    IF ~t.sequence_finished /\ t.rows_until_next_block <= 0
           /\ t.current_n # None
      THEN LET n == t.current_n
               m == IF n = 1 THEN 1 ELSE collatz_step(n)
               e == emit_block_from_value(t, m)
           IN  IF m = 1
                 THEN [e EXCEPT !.sequence_finished = TRUE]
                 ELSE [e EXCEPT !.current_n = m]
      ELSE [t EXCEPT !.rows_until_next_block = Max(0, @ - 1)]

\* collatz2.py update: one iteration of while self.row_accum >= 1.0
column_row(c) ==
    LET t == [c EXCEPT !.row_accum = @ - RowScale] IN
    IF ~t.sequence_finished /\ t.rows_until_next_block <= 0
           /\ t.current_n # None
      THEN LET n == t.current_n
               e == emit_block_from_value(t, n)
           IN  IF n = 1
                 THEN [e EXCEPT !.sequence_finished = TRUE]
                 ELSE [e EXCEPT !.current_n = collatz_step(n)]
      ELSE [t EXCEPT !.rows_until_next_block = Max(0, @ - 1)]

\* colltaz1.py update: one iteration of while self.row_accum >= 1.0
c1_column_row(c) ==
    LET t == [c EXCEPT !.row_accum = @ - RowScale] IN
    IF ~t.sequence_finished /\ t.rows_until_next_block <= 0
      THEN LET g == CHOOSE x \in finite_next(t.collatz) : TRUE IN
           IF g.at = "finished"
             THEN [t EXCEPT !.collatz = g, !.sequence_finished = TRUE]
             ELSE emit_block_from_value([t EXCEPT !.collatz = g], g.n)
      ELSE [t EXCEPT !.rows_until_next_block = Max(0, @ - 1)]

\* collatz2.py update: while self.row_accum >= 1.0
RECURSIVE column_rows(_)
column_rows(c) ==
    IF c.row_accum >= RowScale THEN column_rows(column_row(c)) ELSE c

\* colltaz1.py update: while self.row_accum >= 1.0
RECURSIVE c1_column_rows(_)
c1_column_rows(c) ==
    IF c.row_accum >= RowScale THEN c1_column_rows(c1_column_row(c)) ELSE c

\* top_y = int(self.head_row * self.font_size) - (total_rows - 1) * self.font_size
top_y(c) ==
    int(c.head_row * c.font_size, RowScale)
        - (Len(c.char_buffer) - 1) * c.font_size

\* update: total_rows > 0 and top_y > self.h + self.font_size
below_screen(c) ==
    /\ Len(c.char_buffer) > 0
    /\ top_y(c) > c.h + c.font_size

\* delta_rows = self.speed * dt; head_row += delta_rows; row_accum += delta_rows
column_advance(c, dt_ms) ==
    [c EXCEPT !.head_row  = @ + c.speed * dt_ms,
              !.row_accum = @ + c.speed * dt_ms]

\* mutant: an inactive column starts at every update
due_always(c, now) == TRUE

\* update: now_ms >= self.t_next_spawn
due(c, now) == now >= c.t_next_spawn

\* collatz2.py MatrixColumn.update(dt, now_ms), with the values the random
\* calls return
column_update(c, dt_ms, now, rows_above, wait) ==
    IF ~c.active
      THEN IF due(c, now) THEN start_new_sequence(c, rows_above) ELSE c
      ELSE LET t == column_rows(column_advance(c, dt_ms)) IN
           IF below_screen(t) THEN schedule_next(t, now, wait) ELSE t

\* colltaz1.py MatrixColumn.update(dt, now_ms)
c1_column_update(c, dt_ms, now, rows_above, wait) ==
    IF ~c.active
      THEN IF due(c, now) THEN c1_start_new_sequence(c, rows_above) ELSE c
      ELSE LET t == c1_column_rows(column_advance(c, dt_ms)) IN
           IF below_screen(t) THEN c1_schedule_next(t, now, wait) ELSE t

(***************************************************************************)
(* Specification of one column: main()'s loop calling update(dt, now_ms)   *)
(* on a column, followed for collatz2.py and for colltaz1.py side by side  *)
(* from the same arguments, with the same clock and the same values        *)
(* returned by the random calls.                                           *)
(***************************************************************************)
\* a short screen on which 1000000000 is followed, and a tall one with a
\* long tail on which the 31 terms of 1073741824 fit
ColumnArgs ==
    [fixed_start : {1000000000}, height : {6}, font_size : {2},
     speed : {2, 3}, tail : {0}, block_gap_rows : {0, 1},
     spawn_min_ms : {500, 1000}, spawn_max_ms : {0, 1500}]
    \cup [fixed_start : {1073741824}, height : {60}, font_size : {2},
          speed : {8}, tail : {200}, block_gap_rows : {0},
          spawn_min_ms : {500}, spawn_max_ms : {500}]

\* values random.uniform(2, self.h // self.font_size // 4 + 4) can return
RowsAbove(c) ==
    {2 * RowScale, 2500, ((c.h \div c.font_size) \div 4 + 4) * RowScale}

\* values random.randint(self.spawn_min_ms, self.spawn_max_ms) can return
Waits(c) == {c.spawn_min_ms, c.spawn_max_ms}

\* main: col.t_next_spawn = now_ms + random.randint(0, max(spawn_max_ms,
\* spawn_min_ms)); col.active = False
first_spawn(c, now, a, wait) ==
    [c EXCEPT !.t_next_spawn = now + wait, !.active = FALSE]

InitMatrix ==
    /\ \E a \in ColumnArgs :
          \E w \in {0, Max(a.spawn_max_ms, a.spawn_min_ms)} :
              matrix = [now_ms |-> 0, dt |-> 0,
                        c2 |-> first_spawn(MatrixColumn(a), 0, a, w),
                        c1 |-> first_spawn(c1_MatrixColumn(a), 0, a, w)]
    /\ gen = <<>> /\ seq = <<>> /\ proc = <<>> /\ seed = <<>> /\ bright = <<>>
    /\ StepIdle /\ AllocIdle /\ CfgIdle /\ StreamIdle /\ RainIdle

\* one pass of the loop: dt = clock.tick(fps) / 1000.0; now_ms = get_ticks();
\* col.update(dt, now_ms)
ColumnTick ==
    /\ \E d \in DtChoices :
          /\ matrix.now_ms + d <= MaxColumnSeconds * 1000
          /\ \E ra \in RowsAbove(matrix.c2), w \in Waits(matrix.c2) :
                matrix' = [now_ms |-> matrix.now_ms + d,
                           dt     |-> d,
                           c2     |-> column_update(matrix.c2, d,
                                         matrix.now_ms + d, ra, w),
                           c1     |-> c1_column_update(matrix.c1, d,
                                         matrix.now_ms + d, ra, w)]
    /\ UNCHANGED <<gen, seq, proc, seed, bright, stepVars, allocVars, cfgVars,
                   streamVars, rainVars>>

NextMatrix == ColumnTick

SpecMatrix == InitMatrix /\ [][NextMatrix]_vars

\* the two columns followed, before and after a step
ColumnPairs == {<<matrix.c2, matrix'.c2>>, <<matrix.c1, matrix'.c1>>}

\* the step started a new sequence on the column / rescheduled it
Started(c, d) == ~c.active /\ d.active
Rescheduled(c, d) == c.active /\ ~d.active

\* C33: an inactive column starts a new sequence only at an update whose
\* now_ms >= t_next_spawn; schedule_next(now_ms) sets t_next_spawn to
\* now_ms + w with spawn_min_ms <= w <= spawn_max_ms, so a column never
\* restarts sooner than spawn_min_ms after it finished; and no new sequence
\* is started while the column is active (its head goes on from where it
\* was).
C33_IdleTimer ==
    [][\A p \in ColumnPairs :
          LET c == p[1]
              d == p[2]
          IN  /\ Started(c, d) =>
                    /\ matrix'.now_ms >= c.t_next_spawn
                    /\ c.rescheduled_at # None =>
                          matrix'.now_ms - c.rescheduled_at >= c.spawn_min_ms
              /\ Rescheduled(c, d) =>
                    /\ d.t_next_spawn - matrix'.now_ms >= c.spawn_min_ms
                    /\ d.t_next_spawn - matrix'.now_ms <= c.spawn_max_ms
                    /\ d.rescheduled_at = matrix'.now_ms
              /\ (c.active /\ d.active) =>
                    d.head_row = c.head_row + c.speed * matrix'.dt]_vars

\* a column that was rescheduled, waited and has started its next sequence,
\* in both programs
C33_Witness ==
    /\ matrix.c2.active /\ matrix.c1.active
    /\ matrix.c2.rescheduled_at # None
    /\ matrix.c1.rescheduled_at # None
    /\ matrix.c2.spawn_min_ms = 1000
    /\ matrix.now_ms >= matrix.c2.rescheduled_at + 1000

\* C34: a column keeps every character it has emitted in char_buffer until
\* the whole buffer has passed below the bottom edge, and only then empties
\* it, all at once: while the column is active no emitted character is
\* missing from the buffer.
C34_WholeCull ==
    \A c \in {matrix.c2, matrix.c1} :
        c.active => c.char_buffer = c.emitted

\* what the code keeps: the newest max_rows_on_screen characters, the older
\* ones being cut off at each block; the buffer is emptied only by
\* schedule_next
CutToMaxRows ==
    \A c \in {matrix.c2, matrix.c1} :
        /\ c.active =>
              c.char_buffer
                  = SubSeq(c.emitted, 1,
                           Min(Len(c.emitted), max_rows_on_screen(c)))
        /\ ~c.active => c.char_buffer = <<>>

\* C35: a column is rescheduled only after its stream has finished fully:
\* its sequence has reached 1 (the term 1 has been emitted) and the whole
\* buffer is below the screen; a sequence is never abandoned before its
\* term 1 has been emitted.
C35_FinishedBeforeReschedule ==
    [][\A p \in ColumnPairs :
          Rescheduled(p[1], p[2]) => p[2].last_n = 1]_vars

\* what the code waits for: the update that reschedules a column is one
\* after whose row steps the top of the buffer is below h + font_size,
\* whether or not the sequence has finished
RescheduledBelowScreen ==
    [][/\ Rescheduled(matrix.c2, matrix'.c2) <=>
            (matrix.c2.active
               /\ below_screen(column_rows(column_advance(matrix.c2, matrix'.dt))))
       /\ Rescheduled(matrix.c1, matrix'.c1) <=>
            (matrix.c1.active
               /\ below_screen(c1_column_rows(column_advance(matrix.c1, matrix'.dt))))]_vars

\* on the tall screen the sequence of 1073741824 is shown down to 1 before
\* the column is rescheduled
FinishedOnTallScreen ==
    [][\A p \in ColumnPairs :
          (Rescheduled(p[1], p[2]) /\ p[1].h = 60) => p[2].last_n = 1]_vars

Constructed == pc = "loop" /\ dt = 0 /\ now_ms = 0

\* the streams of the list that fall in column c
InColumn(c) == {i \in 1 .. Len(streams) : streams[i].column = c}

\* C37: in collatz7.py construction seeds one stream per column: after the
\* cols_fit initial calls of pick, every column in [0, cols_fit) holds
\* exactly one seed stream, for every column_cooldown_ms, 0 included.
C37_OneSeedPerColumn ==
    (variant = "collatz7" /\ Constructed) =>
        \A c \in 0 .. (cols_fit_of(args) - 1) : Cardinality(InColumn(c)) = 1

\* with a positive cooldown the initial picks are distinct
OneSeedPerColumnWithCooldown ==
    (variant = "collatz7" /\ Constructed /\ args.column_cooldown_ms > 0) =>
        \A c \in 0 .. (cols_fit_of(args) - 1) : Cardinality(InColumn(c)) = 1

(***************************************************************************)
(* The chain of values                                                     *)
(***************************************************************************)
\* C38: the value chain does not stop at 1: a stream with value 1 spawns a
\* child with value 4 (the chain goes on through 1, 4, 2, 1), in every
\* spawning program, under repeated ticks with dt > 0.
C38_ChainPassesOne ==
    <>(stream.value = 1 => child_value = 4)

\* every link that is made is a Collatz step, from 1 as from any other
\* value: the child appended at a spawn check carries collatz_step of its
\* parent's value, and a parent 1 gets the child 4
ChainLinks ==
    [][(pc = "check" /\ Len(streams') > Len(streams)) =>
          LET p == streams[snapshot[it]]
              c == streams'[Len(streams')]
          IN  /\ c.value = collatz_step(p.value)
              /\ p.value = 1 => c.value = 4]_vars

\* collatz.py with --spawn-after-digits 1: the list after six ticks holds
\* the chain 1, 4, 2, 1, 4
ChainCycles ==
    /\ variant = "collatz"
    /\ Len(streams) >= 5
    /\ streams[1].value = 1 /\ streams[2].value = 4 /\ streams[3].value = 2
    /\ streams[4].value = 1 /\ streams[5].value = 4

\* in collatz5.py and collatz7.py, where the trigger is the head's position,
\* every stream with value 1 followed to the end of the modelled time has
\* spawned its child 4
PositionTriggerPassesOne ==
    (HorizonReached /\ variant # "collatz" /\ stream.value = 1)
        => child_value = 4

(***************************************************************************)
(* The two MatrixColumn classes side by side                               *)
(***************************************************************************)
\* C39: collatz2.py's MatrixColumn (integer state) and colltaz1.py's
\* (generator state), started from the same start value and head position,
\* with the same speed, block_gap_rows and screen size and driven by the
\* same update(dt, now_ms) calls, have identical head_row, char_buffer and
\* active flag after every update, the one that reschedules the column
\* included.
C39_ColumnsEquivalent ==
    /\ matrix.c2.head_row = matrix.c1.head_row
    /\ matrix.c2.char_buffer = matrix.c1.char_buffer
    /\ matrix.c2.active = matrix.c1.active

\* the moment at which the two differ inside: the term 1 has just been
\* emitted, collatz2.py has set sequence_finished, colltaz1.py will set it
\* only when next() raises StopIteration; the visible state is the same
C39_Witness ==
    /\ matrix.c2.active /\ matrix.c1.active
    /\ matrix.c2.last_n = 1 /\ matrix.c1.last_n = 1
    /\ matrix.c2.sequence_finished
    /\ ~matrix.c1.sequence_finished
    /\ matrix.c2.char_buffer # <<>>

\* the rest of the state the two classes share is equal as well
ColumnsAgreeInside ==
    /\ matrix.c2.row_accum = matrix.c1.row_accum
    /\ matrix.c2.rows_until_next_block = matrix.c1.rows_until_next_block
    /\ matrix.c2.t_next_spawn = matrix.c1.t_next_spawn
    /\ matrix.c2.emitted = matrix.c1.emitted
====
